---- MODULE Spec2Model ----
(***************************************************************************)
(* RotatingMagnetFilamentMonitor (RepRapFirmware, FilamentMonitors).       *)
(*                                                                         *)
(* A model of one monitor instance: the word decoder, the angle tracker,   *)
(* the sync engine and the calibration state machine, as written in        *)
(* RotatingMagnetFilamentMonitor.cpp.                                      *)
(*                                                                         *)
(* Numbers.  The firmware computes with float.  The model computes with    *)
(* exact integers in these units:                                          *)
(*   extrusion            mm                                               *)
(*   movement             counts, 1024 counts = 1 revolution               *)
(*   mmPerRev             mm per revolution                                *)
(*   min/maxMovementAllowed   percent (the firmware stores percent*0.01)   *)
(*   a ratio movement/extrusion   a pair [n |-> counts, d |-> mm], d > 0,  *)
(*                         compared by cross multiplication                *)
(* so a ratio test of the firmware, ratio*mmPerRev < minMovementAllowed,   *)
(* reads n*mmPerRev*100 < minMovementAllowed*1024*d here.                  *)
(***************************************************************************)
EXTENDS Integers, Sequences, FiniteSets, TLC

(***************************************************************************)
(* Bounds of the model.  Each specification below follows the monitor      *)
(* while the extrusion, the movement and the clock stay within its bounds. *)
(***************************************************************************)
\* Spec: commanded extrusion (mm) pending in the two windows together
MaxPending == 6
\* Spec: lifetime commanded extrusion (mm)
MaxTotal == 6
\* where the model stops the clock, ms
MaxTime == 511
\* framing / parity errors the model counts
MaxErrCount == 1
\* SpecSync: pending extrusion (mm) and movement (counts)
SyncMaxPending == 2
SyncMaxMovement == 256
\* SpecCalibration: pending and lifetime extrusion (mm), movement (counts)
CalMaxPending == 8
CalMaxTotal == 16
CalMaxMovement == 512
\* SpecSensitivity: pending and lifetime extrusion (mm), movement (counts)
SensMaxPending == 11
SensMaxTotal == 33
SensMaxMovement == 1024
\* SpecAngle: movement (counts) since the last sync
AngleMaxMovement == 1023
\* SpecFlag: pending and lifetime extrusion, mm; movement of a window, counts
FlagMaxPending == 4
FlagMaxTotal == 16
FlagMaxMovement == 256
\* SpecDecoder: pending extrusion, mm; movement of a window, counts
DecoderMaxPending == 1
DecoderMaxMovement == 256
\* SpecReentrant: pending extrusion, mm
ReentrantMaxPending == 3
\* SpecMachine: pending and lifetime extrusion (mm), movement (counts)
MachineMaxPending == 12
MachineMaxTotal == 16
MachineMaxMovement == 256
\* SpecCandidate: pending and lifetime extrusion (mm), movement (counts)
CandidateMaxPending == 9
CandidateMaxTotal == 12
CandidateMaxMovement == 256
\* SpecSilent: extrusion past the overdue threshold and lifetime extrusion, mm
SilentMaxExcess == 3
SilentMaxTotal == 9
\* SpecFrame: pending and lifetime extrusion (mm), movement (counts)
FrameMaxPending == 6
FrameMaxTotal == 9
FrameMaxMovement == 256

(***************************************************************************)
(* Program constants.                                                      *)
(***************************************************************************)
SyncDelayMillis == 10
\* millis() when the monitor is constructed
StartTime == 10
\* millis() - lastMeasurementTime > 500
OverdueMillis == 500
\* totalExtrusionCommanded >= 10.0
CalibrationLength == 10
\* the 10-bit angle field: 1024 counts per revolution
CountsPerRev == 1024

\* word layouts, from the layout comment of HandleIncomingData
TypeMagnetV1ErrorMask == 32768
TypeMagnetV1SwitchOpenMask == 16384
TypeMagnetV2SwitchOpenMask == 4096
TypeMagnetV2MessageTypeMask == 27648
TypeMagnetV2MessageTypePosition == 2048
TypeMagnetV2MessageTypeError == 8192
TypeMagnetV2MessageTypeInfo == 24576
TypeMagnetV2InfoTypeMask == 7936
TypeMagnetV2InfoTypeVersion == 0
TypeMagnetV3InfoTypeMagnitude == 512
TypeMagnetV3InfoTypeAgc == 768
TypeMagnetAngleMask == 1023

FilamentSensorStatus ==
    {"ok", "noFilament", "tooLittleMovement", "tooMuchMovement", "sensorError", "noDataReceived"}

MagneticMonitorState == {"idle", "calibrating", "comparing"}

(***************************************************************************)
(* Integer helpers: the C operators the code uses.                         *)
(***************************************************************************)
RECURSIVE BitAnd(_, _)
BitAnd(a, b) ==
    IF a = 0 \/ b = 0 THEN 0
    ELSE (a % 2) * (b % 2) + 2 * BitAnd(a \div 2, b \div 2)

RECURSIVE BitXor(_, _)
BitXor(a, b) ==
    IF a = 0 THEN b
    ELSE IF b = 0 THEN a
    ELSE ((a + b) % 2) + 2 * BitXor(a \div 2, b \div 2)

\* (int32_t)(a - b) for the uint32_t clock values a, b.  The clock of the
\* model stays far below 2^31, so the difference does not wrap.
Int32Diff(a, b) == a - b

Abs(x) == IF x < 0 THEN -x ELSE x

RECURSIVE Gcd(_, _)
Gcd(a, b) == IF b = 0 THEN a ELSE Gcd(b, a % b)

\* the ratio n/d (d > 0) in lowest terms
Ratio(n, d) ==
    LET g == Gcd(Abs(n), d)
    IN  [n |-> n \div g, d |-> d \div g]

RatioLess(r, s) == r.n * s.d < s.n * r.d

(***************************************************************************)
(* Construction and reset.                                                 *)
(***************************************************************************)
\* Faulty variant of Reset: the state of the calibration state machine kept.
ResetKeepingState(m) ==
    [m EXCEPT !.extrusionCommandedThisSegment = 0,
              !.extrusionCommandedSinceLastSync = 0,
              !.movementMeasuredThisSegment = 0,
              !.movementMeasuredSinceLastSync = 0,
              !.haveStartBitData = FALSE,
              !.synced = FALSE]

\* Faulty variant of Reset: the lifetime totals cleared with the accumulators.
ResetClearingTotals(m) ==
    [m EXCEPT !.extrusionCommandedThisSegment = 0,
              !.extrusionCommandedSinceLastSync = 0,
              !.movementMeasuredThisSegment = 0,
              !.movementMeasuredSinceLastSync = 0,
              !.totalExtrusionCommanded = 0,
              !.totalMovementMeasured = 0,
              !.magneticMonitorState = "idle",
              !.haveStartBitData = FALSE,
              !.synced = FALSE]

\* Reset(): the transient accumulators and the sync state
Reset(m) ==
    [m EXCEPT !.extrusionCommandedThisSegment = 0,
              !.extrusionCommandedSinceLastSync = 0,
              !.movementMeasuredThisSegment = 0,
              !.movementMeasuredSinceLastSync = 0,
              !.magneticMonitorState = "idle",
              !.haveStartBitData = FALSE,
              !.synced = FALSE]

\* Faulty variant of MonitorInit: the switch-open mask of a monitor with
\* switch is put back to the version 1 layout.
MonitorInitRestoringMask(m) ==
    Reset([m EXCEPT !.dataReceived = FALSE,
                    !.sensorValue = 0,
                    !.parityErrorCount = 0,
                    !.framingErrorCount = 0,
                    !.overrunErrorCount = 0,
                    !.polarityErrorCount = 0,
                    !.overdueCount = 0,
                    !.lastMeasurementTime = 0,
                    !.lastErrorCode = 0,
                    !.version = 1,
                    !.magnitude = 0,
                    !.agc = 0,
                    !.backwards = FALSE,
                    !.sensorError = FALSE,
                    !.switchOpenMask = IF @ # 0 THEN TypeMagnetV1SwitchOpenMask ELSE 0])

\* Init(): the sensor state and the counters, then Reset().  It assigns
\* neither switchOpenMask nor the lifetime totals nor minMovementRatio and
\* maxMovementRatio.
MonitorInit(m) ==
    Reset([m EXCEPT !.dataReceived = FALSE,
                    !.sensorValue = 0,
                    !.parityErrorCount = 0,
                    !.framingErrorCount = 0,
                    !.overrunErrorCount = 0,
                    !.polarityErrorCount = 0,
                    !.overdueCount = 0,
                    !.lastMeasurementTime = 0,
                    !.lastErrorCode = 0,
                    !.version = 1,
                    !.magnitude = 0,
                    !.agc = 0,
                    !.backwards = FALSE,
                    !.sensorError = FALSE])

HaveCalibrationData(m) ==
    m.magneticMonitorState # "calibrating" /\ m.totalExtrusionCommanded > CalibrationLength

(***************************************************************************)
(* The word decoder: one iteration of the loop of HandleIncomingData.      *)
(***************************************************************************)
\* data8 after the three folds; its bit 0 is the parity of the word
FoldParity(val) ==
    LET d0 == BitXor(val \div 256, val) % 256
        d1 == BitXor(d0, d0 \div 16)
        d2 == BitXor(d1, d1 \div 4)
    IN  BitXor(d2, d2 \div 2)

\* Faulty variant of DecodeMovement: half a revolution (512) read as backward.
DecodeMovementHalfOpen(val, sensorValue) ==
    LET angleChange == BitAnd((val - sensorValue) % 65536, TypeMagnetAngleMask)
    IN  IF angleChange < 512 THEN angleChange ELSE angleChange - 1024

\* movement of the wheel between the stored word and val, in counts
DecodeMovement(val, sensorValue) ==
    LET angleChange == BitAnd((val - sensorValue) % 65536, TypeMagnetAngleMask)
    IN  IF angleChange <= 512 THEN angleChange ELSE angleChange - 1024

PositionReport(m) == [m |-> [m EXCEPT !.dataReceived = TRUE, !.sensorError = FALSE], report |-> TRUE]

NoReport(m) == [m |-> m, report |-> FALSE]

\* classification of a complete word under version 1
DecodeV1(m, val) ==
    IF FoldParity(val) % 2 = 0 /\ BitAnd(val, 32512) = 24576 /\ BitAnd(val, 255) >= 2
    THEN NoReport([m EXCEPT !.version = BitAnd(val, 255),
                            !.switchOpenMask = IF m.switchOpenMask # 0
                                               THEN TypeMagnetV2SwitchOpenMask
                                               ELSE m.switchOpenMask])
    ELSE IF val = TypeMagnetV1ErrorMask
    THEN NoReport([m EXCEPT !.sensorError = TRUE, !.lastErrorCode = 0])
    ELSE IF BitAnd(val, 48128) = 0
    THEN PositionReport(m)
    ELSE NoReport(m)

\* Faulty variant of DecodeV2: a version word is taken only if it raises the
\* version.
DecodeV2Ratchet(m, val) ==
    LET type == BitAnd(val, TypeMagnetV2MessageTypeMask)
        info == BitAnd(val, TypeMagnetV2InfoTypeMask)
    IN  IF type = TypeMagnetV2MessageTypePosition
        THEN PositionReport(m)
        ELSE IF type = TypeMagnetV2MessageTypeError
        THEN NoReport([m EXCEPT !.lastErrorCode = BitAnd(val, 255),
                                !.sensorError = (BitAnd(val, 255) # 0)])
        ELSE IF type = TypeMagnetV2MessageTypeInfo
        THEN IF info = TypeMagnetV2InfoTypeVersion
             THEN NoReport([m EXCEPT !.version = IF BitAnd(val, 255) > @
                                                 THEN BitAnd(val, 255) ELSE @])
             ELSE IF info = TypeMagnetV3InfoTypeMagnitude
             THEN NoReport([m EXCEPT !.magnitude = BitAnd(val, 255)])
             ELSE IF info = TypeMagnetV3InfoTypeAgc
             THEN NoReport([m EXCEPT !.agc = BitAnd(val, 255)])
             ELSE NoReport(m)
        ELSE NoReport(m)

\* classification of a complete word of even parity under version 2 and later
DecodeV2(m, val) ==
    LET type == BitAnd(val, TypeMagnetV2MessageTypeMask)
        info == BitAnd(val, TypeMagnetV2InfoTypeMask)
    IN  IF type = TypeMagnetV2MessageTypePosition
        THEN PositionReport(m)
        ELSE IF type = TypeMagnetV2MessageTypeError
        THEN NoReport([m EXCEPT !.lastErrorCode = BitAnd(val, 255),
                                !.sensorError = (BitAnd(val, 255) # 0)])
        ELSE IF type = TypeMagnetV2MessageTypeInfo
        THEN IF info = TypeMagnetV2InfoTypeVersion
             THEN NoReport([m EXCEPT !.version = BitAnd(val, 255)])
             ELSE IF info = TypeMagnetV3InfoTypeMagnitude
             THEN NoReport([m EXCEPT !.magnitude = BitAnd(val, 255)])
             ELSE IF info = TypeMagnetV3InfoTypeAgc
             THEN NoReport([m EXCEPT !.agc = BitAnd(val, 255)])
             ELSE NoReport(m)
        ELSE NoReport(m)

\* Faulty variant of Decode: a word of odd parity is dropped without being
\* counted.
DecodeUncounted(m, item) ==
    IF item.res = "complete"
    THEN IF m.version = 1
         THEN DecodeV1(m, item.val)
         ELSE IF FoldParity(item.val) % 2 # 0
         THEN NoReport(m)
         ELSE DecodeV2(m, item.val)
    ELSE NoReport([m EXCEPT !.framingErrorCount = @ + 1])

\* a polled item: a complete word, or a framing error in place of a word
Decode(m, item) ==
    IF item.res = "complete"
    THEN IF m.version = 1
         THEN DecodeV1(m, item.val)
         ELSE IF FoldParity(item.val) % 2 # 0
         THEN NoReport([m EXCEPT !.parityErrorCount = @ + 1])
         ELSE DecodeV2(m, item.val)
    ELSE NoReport([m EXCEPT !.framingErrorCount = @ + 1])

\* Faulty variant of CanUseMeasurement: the SyncDelayMillis test left out.
CanUseMeasurementNoDelay(m, printingSince) ==
    m.checkNonPrintingMoves \/ m.wasPrintingAtStartBit

\* the trust test of a since-last-sync window
CanUseMeasurement(m, printingSince) ==
    \/ m.checkNonPrintingMoves
    \/ /\ m.wasPrintingAtStartBit
       /\ Int32Diff(m.lastSyncTime, printingSince) >= SyncDelayMillis

\* Faulty variant of Sync: the extrusion commanded since the last sync is
\* cleared, not reduced by the candidate.
SyncClearingCommanded(m, printingSince) ==
    LET use == m.synced /\ CanUseMeasurement(m, printingSince)
    IN  [m EXCEPT !.extrusionCommandedThisSegment =
                        IF use THEN @ + m.extrusionCommandedAtCandidateStartBit ELSE @,
                  !.movementMeasuredThisSegment =
                        IF use THEN @ + m.movementMeasuredSinceLastSync ELSE @,
                  !.lastSyncTime = m.candidateStartBitTime,
                  !.extrusionCommandedSinceLastSync = 0,
                  !.movementMeasuredSinceLastSync = 0,
                  !.synced = (m.checkNonPrintingMoves \/ m.wasPrintingAtStartBit)]

\* the sync, run when a position report arrives and start bit data is held
Sync(m, printingSince) ==
    LET use == m.synced /\ CanUseMeasurement(m, printingSince)
    IN  [m EXCEPT !.extrusionCommandedThisSegment =
                        IF use THEN @ + m.extrusionCommandedAtCandidateStartBit ELSE @,
                  !.movementMeasuredThisSegment =
                        IF use THEN @ + m.movementMeasuredSinceLastSync ELSE @,
                  !.lastSyncTime = m.candidateStartBitTime,
                  !.extrusionCommandedSinceLastSync = @ - m.extrusionCommandedAtCandidateStartBit,
                  !.movementMeasuredSinceLastSync = 0,
                  !.synced = (m.checkNonPrintingMoves \/ m.wasPrintingAtStartBit)]

\* a completed position report: the angle tracker, then the sync
TrackPosition(m, val, millis, printingSince) ==
    LET t == [m EXCEPT !.movementMeasuredSinceLastSync = @ + DecodeMovement(val, m.sensorValue),
                       !.sensorValue = val,
                       !.lastMeasurementTime = millis]
    IN  IF t.haveStartBitData THEN Sync(t, printingSince) ELSE t

\* Faulty variant of HandlePolled: haveStartBitData is cleared when a word
\* completes, and kept on a framing error.
HandlePolledKeepingCandidate(m, item, millis, printingSince) ==
    LET d == Decode(m, item)
        p == IF d.report THEN TrackPosition(d.m, item.val, millis, printingSince) ELSE d.m
    IN  IF item.res = "complete" THEN [p EXCEPT !.haveStartBitData = FALSE] ELSE p

\* one iteration of the while loop of HandleIncomingData
HandlePolled(m, item, millis, printingSince) ==
    LET d == Decode(m, item)
        p == IF d.report THEN TrackPosition(d.m, item.val, millis, printingSince) ELSE d.m
    IN  [p EXCEPT !.haveStartBitData = FALSE]

(***************************************************************************)
(* The calibration and comparison state machine.                           *)
(***************************************************************************)
\* Faulty variant of RatioStatus: ratio *= mmPerRev left out.
RatioStatusUnscaled(m, ratio) ==
    IF ratio.n * 100 < m.minMovementAllowed * CountsPerRev * ratio.d
    THEN "tooLittleMovement"
    ELSE IF ratio.n * 100 > m.maxMovementAllowed * CountsPerRev * ratio.d
    THEN "tooMuchMovement"
    ELSE "ok"

\* ratio *= mmPerRev, then the test against minMovementAllowed and
\* maxMovementAllowed
RatioStatus(m, ratio) ==
    IF ratio.n * m.mmPerRev * 100 < m.minMovementAllowed * CountsPerRev * ratio.d
    THEN "tooLittleMovement"
    ELSE IF ratio.n * m.mmPerRev * 100 > m.maxMovementAllowed * CountsPerRev * ratio.d
    THEN "tooMuchMovement"
    ELSE "ok"

\* Faulty variant of CheckFilamentIdle: a window that reaches the calibration
\* length completes the calibration at once.
CheckFilamentIdleCompleting(m, amountCommanded, amountMeasured) ==
    [m   |-> [m EXCEPT !.magneticMonitorState =
                            IF amountCommanded >= CalibrationLength
                            THEN "comparing" ELSE "calibrating",
                       !.totalExtrusionCommanded = amountCommanded,
                       !.totalMovementMeasured = amountMeasured],
     ret |-> "ok"]

\* Faulty variant of CheckFilamentIdle: the window is added to the lifetime
\* totals, as state calibrating does.
CheckFilamentIdleAccumulating(m, amountCommanded, amountMeasured) ==
    [m   |-> [m EXCEPT !.magneticMonitorState = "calibrating",
                       !.totalExtrusionCommanded = @ + amountCommanded,
                       !.totalMovementMeasured = @ + amountMeasured],
     ret |-> "ok"]

\* case MagneticMonitorState::idle
CheckFilamentIdle(m, amountCommanded, amountMeasured) ==
    [m   |-> [m EXCEPT !.magneticMonitorState = "calibrating",
                       !.totalExtrusionCommanded = amountCommanded,
                       !.totalMovementMeasured = amountMeasured],
     ret |-> "ok"]

\* Faulty variant of CheckFilamentCalibrating: the test of the 10 mm left out.
CheckFilamentCalibratingUnconditional(m, amountCommanded, amountMeasured) ==
    LET commanded == m.totalExtrusionCommanded + amountCommanded
        measured  == m.totalMovementMeasured + amountMeasured
        ratio     == Ratio(Abs(measured), commanded)
    IN  [m   |-> [m EXCEPT !.totalExtrusionCommanded = commanded,
                           !.totalMovementMeasured = Abs(measured),
                           !.backwards = (measured < 0),
                           !.minMovementRatio = ratio,
                           !.maxMovementRatio = ratio,
                           !.magneticMonitorState = "comparing"],
         ret |-> IF m.comparisonEnabled THEN RatioStatus(m, ratio) ELSE "ok"]

\* case MagneticMonitorState::calibrating
CheckFilamentCalibrating(m, amountCommanded, amountMeasured) ==
    LET commanded == m.totalExtrusionCommanded + amountCommanded
        measured  == m.totalMovementMeasured + amountMeasured
        backwards == measured < 0
        ratio     == Ratio(Abs(measured), commanded)
    IN  IF commanded >= CalibrationLength
        THEN [m   |-> [m EXCEPT !.totalExtrusionCommanded = commanded,
                                !.totalMovementMeasured = Abs(measured),
                                !.backwards = backwards,
                                !.minMovementRatio = ratio,
                                !.maxMovementRatio = ratio,
                                !.magneticMonitorState = "comparing"],
              ret |-> IF m.comparisonEnabled THEN RatioStatus(m, ratio) ELSE "ok"]
        ELSE [m   |-> [m EXCEPT !.totalExtrusionCommanded = commanded,
                                !.totalMovementMeasured = measured],
              ret |-> "ok"]

\* Faulty variant of CheckFilamentComparing: backwards evaluated again from
\* the window.
CheckFilamentComparingResigned(m, amountCommanded, amountMeasured) ==
    LET backwards == amountMeasured < 0
        measured  == Abs(amountMeasured)
        ratio     == Ratio(measured, amountCommanded)
        isMax     == RatioLess(m.maxMovementRatio, ratio)
        isMin     == ~isMax /\ RatioLess(ratio, m.minMovementRatio)
    IN  [m   |-> [m EXCEPT !.totalExtrusionCommanded = @ + amountCommanded,
                           !.totalMovementMeasured = @ + measured,
                           !.backwards = backwards,
                           !.maxMovementRatio = IF isMax THEN ratio ELSE @,
                           !.minMovementRatio = IF isMin THEN ratio ELSE @],
         ret |-> IF m.comparisonEnabled THEN RatioStatus(m, ratio) ELSE "ok"]

\* Faulty variant of CheckFilamentComparing: the ratio scaled by the measured
\* sensitivity, totalExtrusionCommanded/totalMovementMeasured, where there
\* is one, in place of mmPerRev.
CheckFilamentComparingMeasured(m, amountCommanded, amountMeasured) ==
    LET measured  == IF m.backwards THEN -amountMeasured ELSE amountMeasured
        ratio     == Ratio(measured, amountCommanded)
        isMax     == RatioLess(m.maxMovementRatio, ratio)
        isMin     == ~isMax /\ RatioLess(ratio, m.minMovementRatio)
        commanded == m.totalExtrusionCommanded + amountCommanded
        movement  == m.totalMovementMeasured + measured
        scaled    == IF ratio.n * commanded * 100 < m.minMovementAllowed * ratio.d * movement
                     THEN "tooLittleMovement"
                     ELSE IF ratio.n * commanded * 100 > m.maxMovementAllowed * ratio.d * movement
                     THEN "tooMuchMovement"
                     ELSE "ok"
    IN  [m   |-> [m EXCEPT !.totalExtrusionCommanded = commanded,
                           !.totalMovementMeasured = movement,
                           !.maxMovementRatio = IF isMax THEN ratio ELSE @,
                           !.minMovementRatio = IF isMin THEN ratio ELSE @],
         ret |-> IF ~m.comparisonEnabled THEN "ok"
                 ELSE IF movement > 0 THEN scaled ELSE RatioStatus(m, ratio)]

\* case MagneticMonitorState::comparing (amountCommanded > 0)
CheckFilamentComparing(m, amountCommanded, amountMeasured) ==
    LET measured == IF m.backwards THEN -amountMeasured ELSE amountMeasured
        ratio    == Ratio(measured, amountCommanded)
        isMax    == RatioLess(m.maxMovementRatio, ratio)
        isMin    == ~isMax /\ RatioLess(ratio, m.minMovementRatio)
    IN  [m   |-> [m EXCEPT !.totalExtrusionCommanded = @ + amountCommanded,
                           !.totalMovementMeasured = @ + measured,
                           !.maxMovementRatio = IF isMax THEN ratio ELSE @,
                           !.minMovementRatio = IF isMin THEN ratio ELSE @],
         ret |-> IF m.comparisonEnabled THEN RatioStatus(m, ratio) ELSE "ok"]

\* Faulty variant of CheckFilament: the test of dataReceived left out.
CheckFilamentDataUntested(m, amountCommanded, amountMeasured) ==
    IF m.magneticMonitorState = "idle"
    THEN CheckFilamentIdle(m, amountCommanded, amountMeasured)
    ELSE IF m.magneticMonitorState = "calibrating"
    THEN CheckFilamentCalibrating(m, amountCommanded, amountMeasured)
    ELSE CheckFilamentComparing(m, amountCommanded, amountMeasured)

\* CheckFilament: the test of dataReceived, then the switch on the state
CheckFilament(m, amountCommanded, amountMeasured) ==
    IF ~m.dataReceived
    THEN [m |-> m, ret |-> "noDataReceived"]
    ELSE IF m.magneticMonitorState = "idle"
    THEN CheckFilamentIdle(m, amountCommanded, amountMeasured)
    ELSE IF m.magneticMonitorState = "calibrating"
    THEN CheckFilamentCalibrating(m, amountCommanded, amountMeasured)
    ELSE CheckFilamentComparing(m, amountCommanded, amountMeasured)

(***************************************************************************)
(* Check and Clear.                                                        *)
(***************************************************************************)
\* steps 1 and 2 of Check
CheckBegin(m, isPrinting, fromIsr, waitingForStartBit, isrMillis, filamentConsumed) ==
    LET a == [m EXCEPT !.extrusionCommandedSinceLastSync = @ + filamentConsumed]
    IN  IF fromIsr /\ waitingForStartBit
        THEN [a EXCEPT !.extrusionCommandedAtCandidateStartBit = a.extrusionCommandedSinceLastSync,
                       !.wasPrintingAtStartBit = isPrinting,
                       !.candidateStartBitTime = isrMillis,
                       !.haveStartBitData = TRUE]
        ELSE a

SwitchOpen(m) == BitAnd(m.sensorValue, m.switchOpenMask) # 0

\* Faulty variant of SyncOverdue: the interval measured from the start bit
\* candidate, not from the last position report.
SyncOverdueSinceCandidate(m, millis, isReceiving) ==
    /\ m.extrusionCommandedThisSegment + m.extrusionCommandedSinceLastSync
            >= m.minimumExtrusionCheckLength * 3
    /\ millis - m.candidateStartBitTime > OverdueMillis
    /\ ~isReceiving

SyncOverdue(m, millis, isReceiving) ==
    /\ m.extrusionCommandedThisSegment + m.extrusionCommandedSinceLastSync
            >= m.minimumExtrusionCheckLength * 3
    /\ millis - m.lastMeasurementTime > OverdueMillis
    /\ ~isReceiving

\* Faulty variant of Compare: the overdue branch clears the this-segment
\* pair alone, as the regular branch does.
CompareKeepingSinceLastSync(m, millis, isReceiving) ==
    IF m.extrusionCommandedThisSegment >= m.minimumExtrusionCheckLength
    THEN LET c == CheckFilament(m, m.extrusionCommandedThisSegment, m.movementMeasuredThisSegment)
         IN  [m   |-> [c.m EXCEPT !.extrusionCommandedThisSegment = 0,
                                  !.movementMeasuredThisSegment = 0],
              ret |-> c.ret]
    ELSE IF SyncOverdue(m, millis, isReceiving)
    THEN LET c == CheckFilament(m,
                    m.extrusionCommandedThisSegment + m.extrusionCommandedSinceLastSync,
                    m.movementMeasuredThisSegment + m.movementMeasuredSinceLastSync)
         IN  [m   |-> [c.m EXCEPT !.extrusionCommandedThisSegment = 0,
                                  !.movementMeasuredThisSegment = 0],
              ret |-> c.ret]
    ELSE [m |-> m, ret |-> "ok"]

\* the last two branches of step 4, taken when there is neither a sensor
\* error nor an open switch
Compare(m, millis, isReceiving) ==
    IF m.extrusionCommandedThisSegment >= m.minimumExtrusionCheckLength
    THEN LET c == CheckFilament(m, m.extrusionCommandedThisSegment, m.movementMeasuredThisSegment)
         IN  [m   |-> [c.m EXCEPT !.extrusionCommandedThisSegment = 0,
                                  !.movementMeasuredThisSegment = 0],
              ret |-> c.ret]
    ELSE IF SyncOverdue(m, millis, isReceiving)
    THEN LET c == CheckFilament(m,
                    m.extrusionCommandedThisSegment + m.extrusionCommandedSinceLastSync,
                    m.movementMeasuredThisSegment + m.movementMeasuredSinceLastSync)
         IN  [m   |-> [c.m EXCEPT !.extrusionCommandedThisSegment = 0,
                                  !.extrusionCommandedSinceLastSync = 0,
                                  !.movementMeasuredThisSegment = 0,
                                  !.movementMeasuredSinceLastSync = 0],
              ret |-> c.ret]
    ELSE [m |-> m, ret |-> "ok"]

\* Faulty variant of CheckStatus: the comparison is made first, and the
\* sensor error and the open switch override only what it returns.
CheckStatusComparingFirst(m, millis, isReceiving) ==
    LET c == Compare(m, millis, isReceiving)
    IN  IF m.sensorError
        THEN [m |-> c.m, ret |-> "sensorError"]
        ELSE IF SwitchOpen(m)
        THEN [m |-> c.m, ret |-> "noFilament"]
        ELSE c

\* Faulty variant of CheckStatus: the switch tested before the sensor error.
CheckStatusSwitchFirst(m, millis, isReceiving) ==
    IF SwitchOpen(m)
    THEN [m |-> m, ret |-> "noFilament"]
    ELSE IF m.sensorError
    THEN [m |-> m, ret |-> "sensorError"]
    ELSE Compare(m, millis, isReceiving)

\* step 4 of Check, before the comparisonEnabled mask of the return
CheckStatus(m, millis, isReceiving) ==
    IF m.sensorError
    THEN [m |-> m, ret |-> "sensorError"]
    ELSE IF SwitchOpen(m)
    THEN [m |-> m, ret |-> "noFilament"]
    ELSE Compare(m, millis, isReceiving)

\* Faulty variant of CheckEnd: with comparison disabled, step 4 is skipped.
CheckEndSkippedWhenDisabled(m, millis, isReceiving) ==
    IF m.comparisonEnabled
    THEN CheckStatus(m, millis, isReceiving)
    ELSE [m |-> m, ret |-> "ok"]

\* step 4 of Check and its return
CheckEnd(m, millis, isReceiving) ==
    LET c == CheckStatus(m, millis, isReceiving)
    IN  [m |-> c.m, ret |-> IF m.comparisonEnabled THEN c.ret ELSE "ok"]

\* Faulty variant of ClearStatus: the sensor error tested before
\* dataReceived, the order of Check.
ClearStatusErrorFirst(m) ==
    IF ~m.comparisonEnabled THEN "ok"
    ELSE IF m.sensorError THEN "sensorError"
    ELSE IF ~m.dataReceived THEN "noDataReceived"
    ELSE IF SwitchOpen(m) THEN "noFilament"
    ELSE "ok"

\* the value Clear returns
ClearStatus(m) ==
    IF ~m.comparisonEnabled THEN "ok"
    ELSE IF ~m.dataReceived THEN "noDataReceived"
    ELSE IF m.sensorError THEN "sensorError"
    ELSE IF SwitchOpen(m) THEN "noFilament"
    ELSE "ok"

(***************************************************************************)
(* State.                                                                  *)
(*   mon         the members of the monitor                                *)
(*   now         millis()                                                  *)
(*   pc          "ready", or the call that is inside HandleIncomingData    *)
(*   delivered   PollReceiveBuffer has delivered an item to the present     *)
(*               call                                                      *)
(*   last        the last call that returned and what it returned          *)
(*   calibrated  history: a calibration has completed (calibrating ->      *)
(*               comparing) since the last Init()                          *)
(*   task        a task-origin Check taken in steps (SpecReentrant): its   *)
(*               position, the accumulator value it loaded, and the        *)
(*               interrupt-origin Check that ran between its steps         *)
(*   seeded      history: a calibration has completed, and has seeded the  *)
(*               running minimum and maximum, since the last Reset()       *)
(* The receiver, the clock and the motion system are collaborators: what   *)
(* PollReceiveBuffer delivers to a call (a complete word, a framing error, *)
(* or incomplete, which ends the loop), ExtruderPrintingSince() and        *)
(* IsReceiving() are drawn where the code reads them.                      *)
(***************************************************************************)
VARIABLES mon, now, pc, delivered, last, calibrated, task, seeded

vars == <<mon, now, pc, delivered, last, calibrated, task, seeded>>

(***************************************************************************)
(* The inputs the model draws from.                                        *)
(***************************************************************************)
\* M591 L and R as configured
MmPerRevChoices == {22}
MinMovementChoices == {60}
MaxMovementChoices == {150}
\* M591 E as configured, mm: Spec; SpecSync, SpecCalibration and
\* SpecSensitivity
CheckLength == 2
SyncCheckLength == 3

\* a V1 position word of the given angle, with the switch closed or open
Position(angle) == angle
SwitchOpenPosition(angle) == TypeMagnetV1SwitchOpenMask + angle

Complete(val) == [res |-> "complete", val |-> val]

FramingError == [res |-> "error", val |-> 0]

\* the clock advances by these steps, ms
TickSteps == {OverdueMillis + 1}

\* ExtruderPrintingSince(): with a fence established, the instant that
\* passes the SyncDelayMillis test against the fence (the fence is at
\* StartTime or later); without a fence the value decides nothing
TrustedSince(m) ==
    IF m.synced THEN {m.lastSyncTime - SyncDelayMillis} ELSE {0}

\* ... and the instant one millisecond later, which fails the test
PrintingSinceChoices(m) ==
    IF m.synced
    THEN {m.lastSyncTime - SyncDelayMillis, m.lastSyncTime - SyncDelayMillis + 1}
    ELSE {0}

(***************************************************************************)
(* Construction.                                                           *)
(***************************************************************************)
\* the constructor for monitor type 3 (no switch) or 4 (with switch).  The
\* Default... values are those of the header; the model starts from the
\* configuration of its choices.  The constructor assigns neither the
\* lifetime totals nor the candidate fields: total is what the lifetime
\* extrusion holds before its first assignment.
Constructed(monitorType, l, rmin, rmax, e, total) ==
    MonitorInit(
        [mmPerRev |-> l,
         minMovementAllowed |-> rmin,
         maxMovementAllowed |-> rmax,
         minimumExtrusionCheckLength |-> e,
         comparisonEnabled |-> FALSE,
         checkNonPrintingMoves |-> FALSE,
         switchOpenMask |-> IF monitorType = 4 THEN TypeMagnetV1SwitchOpenMask ELSE 0,
         dataReceived |-> FALSE,
         sensorValue |-> 0,
         parityErrorCount |-> 0,
         framingErrorCount |-> 0,
         overrunErrorCount |-> 0,
         polarityErrorCount |-> 0,
         overdueCount |-> 0,
         lastMeasurementTime |-> 0,
         lastErrorCode |-> 0,
         version |-> 1,
         magnitude |-> 0,
         agc |-> 0,
         backwards |-> FALSE,
         sensorError |-> FALSE,
         extrusionCommandedThisSegment |-> 0,
         extrusionCommandedSinceLastSync |-> 0,
         movementMeasuredThisSegment |-> 0,
         movementMeasuredSinceLastSync |-> 0,
         magneticMonitorState |-> "idle",
         haveStartBitData |-> FALSE,
         synced |-> FALSE,
         extrusionCommandedAtCandidateStartBit |-> 0,
         wasPrintingAtStartBit |-> FALSE,
         candidateStartBitTime |-> 0,
         lastSyncTime |-> 0,
         totalExtrusionCommanded |-> total,
         totalMovementMeasured |-> 0,
         minMovementRatio |-> Ratio(0, 1),
         maxMovementRatio |-> Ratio(0, 1)])

\* no task-origin Check is under way in steps; start is the monitor at the
\* start of the last one, isr the interrupt-origin Check that cut into it
NoIsr == [ran |-> FALSE, at |-> "none", isPrinting |-> FALSE,
          waitingForStartBit |-> FALSE, filamentConsumed |-> 0]

NoTask(m) == [step |-> "none", loaded |-> 0, filamentConsumed |-> 0, start |-> m, isr |-> NoIsr]

\* the monitor as constructed, at StartTime, with no call made yet
Started(m) ==
    /\ mon = m
    /\ now = StartTime
    /\ pc = "ready"
    /\ delivered = FALSE
    /\ last = [op |-> "none", ret |-> "ok"]
    /\ calibrated = FALSE
    /\ task = NoTask(mon)
    /\ seeded = FALSE

Init ==
    \E l \in MmPerRevChoices, rmin \in MinMovementChoices, rmax \in MaxMovementChoices :
        Started(Constructed(4, l, rmin, rmax, CheckLength, 0))

(***************************************************************************)
(* The clock.                                                              *)
(***************************************************************************)
Tick(d) ==
    /\ now + d <= MaxTime
    /\ now' = now + d
    /\ UNCHANGED <<mon, pc, delivered, last, calibrated, task, seeded>>

(***************************************************************************)
(* The operations of the monitor.                                          *)
(***************************************************************************)
\* lifetime commanded extrusion already counted by the state machine
Counted(m) == IF m.magneticMonitorState = "idle" THEN 0 ELSE m.totalExtrusionCommanded

Pending(m) == m.extrusionCommandedThisSegment + m.extrusionCommandedSinceLastSync

\* the model follows the call: the extrusion it adds stays within the bounds
Followed(filamentConsumed, maxPending, maxTotal) ==
    /\ Pending(mon) + filamentConsumed <= maxPending
    /\ Counted(mon) + Pending(mon) + filamentConsumed <= maxTotal

\* the model follows the word: the movement it adds stays within the bound
Tracked(val, maxMovement) ==
    Decode(mon, Complete(val)).report =>
        Abs(mon.movementMeasuredThisSegment + mon.movementMeasuredSinceLastSync
                + DecodeMovement(val, mon.sensorValue)) <= maxMovement

\* Check is entered: steps 1 and 2
CheckEnter(isPrinting, fromIsr, waitingForStartBit, filamentConsumed) ==
    /\ pc = "ready"
    /\ mon' = CheckBegin(mon, isPrinting, fromIsr, waitingForStartBit, now, filamentConsumed)
    /\ pc' = "Check"
    /\ UNCHANGED <<now, delivered, last, calibrated, task, seeded>>

\* Clear is entered: Reset()
ClearEnter ==
    /\ pc = "ready"
    /\ mon' = Reset(mon)
    /\ pc' = "Clear"
    /\ seeded' = FALSE
    /\ UNCHANGED <<now, delivered, last, calibrated, task>>

\* HandleIncomingData: PollReceiveBuffer delivers a complete word
PollWord(val, printingSince) ==
    /\ pc \in {"Check", "Clear"}
    /\ FoldParity(val) % 2 # 0 => mon.version = 1 \/ mon.parityErrorCount < MaxErrCount
    /\ mon' = HandlePolled(mon, Complete(val), now, printingSince)
    /\ delivered' = TRUE
    /\ UNCHANGED <<now, pc, last, calibrated, task, seeded>>

\* HandleIncomingData: PollReceiveBuffer reports a framing error
PollFramingError ==
    /\ pc \in {"Check", "Clear"}
    /\ mon.framingErrorCount < MaxErrCount
    /\ mon' = HandlePolled(mon, FramingError, now, 0)
    /\ delivered' = TRUE
    /\ UNCHANGED <<now, pc, last, calibrated, task, seeded>>

\* PollReceiveBuffer says incomplete: step 4 of Check, and Check returns
CheckReturn(isReceiving) ==
    /\ pc = "Check"
    /\ LET c == CheckEnd(mon, now, isReceiving)
       IN  /\ mon' = c.m
           /\ last' = [op |-> "Check", ret |-> c.ret]
           /\ calibrated' = (calibrated \/ (mon.magneticMonitorState = "calibrating"
                                            /\ c.m.magneticMonitorState = "comparing"))
           /\ seeded' = (seeded \/ (mon.magneticMonitorState = "calibrating"
                                    /\ c.m.magneticMonitorState = "comparing"))
    /\ pc' = "ready"
    /\ delivered' = FALSE
    /\ UNCHANGED <<now, task>>

\* PollReceiveBuffer says incomplete: Clear returns
ClearReturn ==
    /\ pc = "Clear"
    /\ last' = [op |-> "Clear", ret |-> ClearStatus(mon)]
    /\ pc' = "ready"
    /\ delivered' = FALSE
    /\ UNCHANGED <<mon, now, calibrated, task, seeded>>

\* Configure with parameters seen (M591 with L, E, R, S or A): the
\* parameters are stored, then Init()
Configure(l, rmin, rmax, e, s, a) ==
    /\ pc = "ready"
    /\ mon' = MonitorInit([mon EXCEPT !.mmPerRev = l,
                                      !.minMovementAllowed = rmin,
                                      !.maxMovementAllowed = rmax,
                                      !.minimumExtrusionCheckLength = e,
                                      !.comparisonEnabled = s,
                                      !.checkNonPrintingMoves = a])
    /\ last' = [op |-> "Configure", ret |-> "ok"]
    /\ calibrated' = FALSE
    /\ seeded' = FALSE
    /\ UNCHANGED <<now, pc, delivered, task>>

(***************************************************************************)
(* Spec: the status priorities, the sync engine and the overdue test under *)
(* every caller and receiver behaviour: task and interrupt calls, printing *)
(* and non-printing moves, trusted and untrusted fences, sensor errors,    *)
(* framing errors, the switch, Clear and reconfiguration.  The wheel does  *)
(* not turn (SpecSync and SpecCalibration turn it).                        *)
(***************************************************************************)
\* filamentConsumed of a Check call, mm
FilamentChoices == {0, 3}

Words == {Position(0), SwitchOpenPosition(0), TypeMagnetV1ErrorMask}

Next ==
    \/ \E d \in TickSteps : Tick(d)
    \/ \E isPrinting \in BOOLEAN, fromIsr \in BOOLEAN, waitingForStartBit \in BOOLEAN,
          filamentConsumed \in FilamentChoices :
            /\ (waitingForStartBit => fromIsr)
            /\ Followed(filamentConsumed, MaxPending, MaxTotal)
            /\ CheckEnter(isPrinting, fromIsr, waitingForStartBit, filamentConsumed)
    \/ ClearEnter
    \/ \E val \in Words, since \in PrintingSinceChoices(mon) : PollWord(val, since)
    \/ PollFramingError
    \/ \E isReceiving \in BOOLEAN : CheckReturn(isReceiving)
    \/ ClearReturn
    \/ \E l \in MmPerRevChoices, rmin \in MinMovementChoices, rmax \in MaxMovementChoices,
          s \in BOOLEAN :
            Configure(l, rmin, rmax, CheckLength, s, FALSE)

Spec == Init /\ [][Next]_vars

(***************************************************************************)
(* SpecSync: the sync engine with a turning wheel.  Extrusion arrives in   *)
(* steps below the check length, so the windows accumulate.                *)
(***************************************************************************)
SyncFilamentChoices == {0, 1}

SyncWords == {Position(0), Position(256), TypeMagnetV1ErrorMask}

InitSync ==
    \E l \in MmPerRevChoices, rmin \in MinMovementChoices, rmax \in MaxMovementChoices :
        Started(Constructed(4, l, rmin, rmax, SyncCheckLength, 0))

NextSync ==
    \/ \E isPrinting \in BOOLEAN, fromIsr \in BOOLEAN, waitingForStartBit \in BOOLEAN,
          filamentConsumed \in SyncFilamentChoices :
            /\ (waitingForStartBit => fromIsr)
            /\ Followed(filamentConsumed, SyncMaxPending, SyncMaxPending)
            /\ CheckEnter(isPrinting, fromIsr, waitingForStartBit, filamentConsumed)
    \/ ClearEnter
    \/ \E val \in SyncWords, since \in PrintingSinceChoices(mon) :
            /\ Tracked(val, SyncMaxMovement)
            /\ PollWord(val, since)
    \/ PollFramingError
    \/ \E isReceiving \in BOOLEAN : CheckReturn(isReceiving)
    \/ ClearReturn

SpecSync == InitSync /\ [][NextSync]_vars

(***************************************************************************)
(* SpecCalibration: the calibration and comparison state machine with      *)
(* windows of 4 mm and 8 mm.  Every Check is the interrupt call of a       *)
(* printing move at a start bit and every fence passes the trust test, so  *)
(* each window between two position reports reaches the state machine.     *)
(***************************************************************************)
CalFilamentChoices == {4}

CalWords ==
    {Position(0), Position(256), SwitchOpenPosition(0), TypeMagnetV1ErrorMask}

InitCalibration ==
    \E l \in MmPerRevChoices, rmin \in MinMovementChoices, rmax \in MaxMovementChoices :
        Started(Constructed(4, l, rmin, rmax, SyncCheckLength, 0))

ConfigureCalibration ==
    \E l \in MmPerRevChoices, rmin \in MinMovementChoices, rmax \in MaxMovementChoices :
        Configure(l, rmin, rmax, SyncCheckLength, TRUE, FALSE)

NextCalibration ==
    \/ \E filamentConsumed \in CalFilamentChoices :
            /\ Followed(filamentConsumed, CalMaxPending, CalMaxTotal)
            /\ CheckEnter(TRUE, TRUE, TRUE, filamentConsumed)
    \/ ClearEnter
    \/ \E val \in CalWords, since \in TrustedSince(mon) :
            /\ Tracked(val, CalMaxMovement)
            /\ PollWord(val, since)
    \/ CheckReturn(FALSE)
    \/ ClearReturn
    \/ ConfigureCalibration

SpecCalibration == InitCalibration /\ [][NextCalibration]_vars

(***************************************************************************)
(* SpecSensitivity: the state machine with windows of 11 mm, half a        *)
(* revolution at the configured 22 mm/rev, and a wheel that turns by       *)
(* quarter and half revolutions.  The environment is that of               *)
(* SpecCalibration, without sensor errors and without a switch.            *)
(***************************************************************************)
SensFilamentChoices == {11}

SensWords == {Position(0), Position(256), Position(512)}

NextSensitivity ==
    \/ \E filamentConsumed \in SensFilamentChoices :
            /\ Followed(filamentConsumed, SensMaxPending, SensMaxTotal)
            /\ CheckEnter(TRUE, TRUE, TRUE, filamentConsumed)
    \/ ClearEnter
    \/ \E val \in SensWords, since \in TrustedSince(mon) :
            /\ Tracked(val, SensMaxMovement)
            /\ PollWord(val, since)
    \/ CheckReturn(FALSE)
    \/ ClearReturn
    \/ ConfigureCalibration

SpecSensitivity == InitCalibration /\ [][NextSensitivity]_vars

(***************************************************************************)
(* SpecAngle: the angle tracker.  The monitor is inside Clear, after       *)
(* Reset(), holding any position word from an earlier call; the receiver   *)
(* delivers position words.                                                *)
(***************************************************************************)
\* the 10-bit angles
Angles == 0 .. (CountsPerRev - 1)

StoredWords == {Position(a) : a \in Angles} \cup {SwitchOpenPosition(a) : a \in Angles}

AngleWords ==
    {Position(a) : a \in {0, 1, 511, 512, 513, 1023}} \cup {SwitchOpenPosition(512)}

\* Check has polled the position word w, and Clear has been entered
Holding(w) ==
    [Constructed(4, 22, 60, 150, SyncCheckLength, 0)
        EXCEPT !.dataReceived = TRUE, !.sensorValue = w, !.lastMeasurementTime = StartTime]

InitAngle ==
    /\ \E w \in StoredWords : mon = Holding(w)
    /\ now = StartTime
    /\ pc = "Clear"
    /\ delivered = FALSE
    /\ last = [op |-> "Check", ret |-> "ok"]
    /\ calibrated = FALSE
    /\ task = NoTask(mon)
    /\ seeded = FALSE

NextAngle ==
    \/ \E val \in AngleWords :
            /\ Tracked(val, AngleMaxMovement)
            /\ PollWord(val, 0)
    \/ ClearReturn

SpecAngle == InitAngle /\ [][NextAngle]_vars

(***************************************************************************)
(* SpecFlag: the environment of SpecCalibration with one Check between     *)
(* position reports and a wheel within a quarter turn, for the comparison  *)
(* of a monitor with its twin.                                             *)
(***************************************************************************)
FlagFilamentChoices == {4}

FlagWords ==
    {Position(0), Position(256), SwitchOpenPosition(0), TypeMagnetV1ErrorMask}

NextFlag ==
    \/ \E filamentConsumed \in FlagFilamentChoices :
            /\ Followed(filamentConsumed, FlagMaxPending, FlagMaxTotal)
            /\ CheckEnter(TRUE, TRUE, TRUE, filamentConsumed)
    \/ ClearEnter
    \/ \E val \in FlagWords, since \in TrustedSince(mon) :
            /\ Tracked(val, FlagMaxMovement)
            /\ PollWord(val, since)
    \/ CheckReturn(FALSE)
    \/ ClearReturn
    \/ ConfigureCalibration

SpecFlag == InitCalibration /\ [][NextFlag]_vars

(***************************************************************************)
(* SpecDecoder: the word decoder under versions 1, 2 and 3.  The receiver  *)
(* delivers words of version 1 and of version 2, of even and of odd        *)
(* parity, and framing errors.                                             *)
(***************************************************************************)
\* a version 2 word with its parity bit P making the parity even, or odd
EvenParity(w) == IF FoldParity(w) % 2 = 0 THEN w ELSE w + 32768
OddParity(w) == IF FoldParity(w) % 2 # 0 THEN w ELSE w + 32768

VersionWord(v) == TypeMagnetV2MessageTypeInfo + TypeMagnetV2InfoTypeVersion + v
PositionV2(angle) == TypeMagnetV2MessageTypePosition + angle
ErrorV2(code) == TypeMagnetV2MessageTypeError + code

DecoderFilamentChoices == {1}

DecoderWords ==
    {Position(256), TypeMagnetV1ErrorMask,
     EvenParity(VersionWord(2)), EvenParity(VersionWord(3)), OddParity(VersionWord(3)),
     EvenParity(PositionV2(256)), EvenParity(ErrorV2(1))}

NextDecoder ==
    \/ \E filamentConsumed \in DecoderFilamentChoices :
            /\ Followed(filamentConsumed, DecoderMaxPending, DecoderMaxPending)
            /\ CheckEnter(TRUE, TRUE, TRUE, filamentConsumed)
    \/ ClearEnter
    \/ \E val \in DecoderWords, since \in TrustedSince(mon) :
            /\ Tracked(val, DecoderMaxMovement)
            /\ PollWord(val, since)
    \/ PollFramingError
    \/ CheckReturn(FALSE)
    \/ ClearReturn

SpecDecoder == InitSync /\ [][NextDecoder]_vars

(***************************************************************************)
(* SpecReentrant: Check without the caller's guarantee that its two        *)
(* origins never overlap.  The task-origin Check is taken in steps: the    *)
(* += of step 1 is a load and a store, then the drain and step 4.  An      *)
(* interrupt-origin Check, which runs to completion, may cut in once       *)
(* between the steps.  The receive queue is empty during Check; Clear      *)
(* drains words.                                                           *)
(***************************************************************************)
ReentrantFilamentChoices == {1}
InterruptFilamentChoices == {0, 1}

ReentrantWords == {Position(0), Position(256), TypeMagnetV1ErrorMask}

\* a whole Check that finds the receive queue empty and no reception going on
CheckCall(m, isPrinting, fromIsr, waitingForStartBit, millis, filamentConsumed) ==
    CheckEnd(CheckBegin(m, isPrinting, fromIsr, waitingForStartBit, millis, filamentConsumed),
             millis, FALSE).m

\* Faulty variant of TaskStore: the += of step 1 done in one step on the
\* accumulator as it stands.
TaskStoreAtomic ==
    /\ pc = "Check"
    /\ task.step = "loaded"
    /\ mon' = [mon EXCEPT !.extrusionCommandedSinceLastSync = @ + task.filamentConsumed]
    /\ task' = [task EXCEPT !.step = "stored"]
    /\ UNCHANGED <<now, pc, delivered, last, calibrated, seeded>>

\* step 1 of the task-origin Check, first half: extrusionCommandedSinceLastSync
\* is loaded
TaskLoad(filamentConsumed) ==
    /\ pc = "ready"
    /\ task' = [step |-> "loaded",
                loaded |-> mon.extrusionCommandedSinceLastSync,
                filamentConsumed |-> filamentConsumed,
                start |-> mon,
                isr |-> NoIsr]
    /\ pc' = "Check"
    /\ UNCHANGED <<mon, now, delivered, last, calibrated, seeded>>

\* step 1, second half: the sum is stored.  Step 2 does nothing in a
\* task-origin call (fromIsr is false).
TaskStore ==
    /\ pc = "Check"
    /\ task.step = "loaded"
    /\ mon' = [mon EXCEPT !.extrusionCommandedSinceLastSync =
                                task.loaded + task.filamentConsumed]
    /\ task' = [task EXCEPT !.step = "stored"]
    /\ UNCHANGED <<now, pc, delivered, last, calibrated, seeded>>

\* an interrupt-origin Check runs to completion between two steps of the
\* task-origin Check
Interrupt(isPrinting, waitingForStartBit, filamentConsumed) ==
    /\ pc = "Check"
    /\ task.step \in {"loaded", "stored"}
    /\ ~task.isr.ran
    /\ mon' = CheckCall(mon, isPrinting, TRUE, waitingForStartBit, now, filamentConsumed)
    /\ calibrated' = (calibrated \/ (mon.magneticMonitorState = "calibrating"
                                     /\ mon'.magneticMonitorState = "comparing"))
    /\ seeded' = (seeded \/ (mon.magneticMonitorState = "calibrating"
                             /\ mon'.magneticMonitorState = "comparing"))
    /\ task' = [task EXCEPT !.isr = [ran |-> TRUE, at |-> task.step,
                                     isPrinting |-> isPrinting,
                                     waitingForStartBit |-> waitingForStartBit,
                                     filamentConsumed |-> filamentConsumed]]
    /\ UNCHANGED <<now, pc, delivered, last>>

NextReentrant ==
    \/ \E filamentConsumed \in ReentrantFilamentChoices :
            /\ Pending(mon) + filamentConsumed < ReentrantMaxPending
            /\ TaskLoad(filamentConsumed)
    \/ TaskStore
    \/ \E isPrinting \in BOOLEAN, waitingForStartBit \in BOOLEAN,
          filamentConsumed \in InterruptFilamentChoices :
            Interrupt(isPrinting, waitingForStartBit, filamentConsumed)
    \/ task.step = "stored" /\ CheckReturn(FALSE)
    \/ ClearEnter
    \/ \E val \in ReentrantWords :
            /\ pc = "Clear"
            /\ Tracked(val, SyncMaxMovement)
            /\ PollWord(val, 0)
    \/ ClearReturn

SpecReentrant == InitSync /\ [][NextReentrant]_vars

(***************************************************************************)
(* SpecReported: SpecFlag from a constructor that leaves the               *)
(* lifetime totals unassigned.  totalExtrusionCommanded is declared        *)
(* without an initialiser and neither the constructor nor Init() assigns   *)
(* it: until the first comparison it holds whatever the allocation held.   *)
(***************************************************************************)
UnassignedTotals == {0, 12}

InitReported ==
    \E l \in MmPerRevChoices, rmin \in MinMovementChoices, rmax \in MaxMovementChoices,
       total \in UnassignedTotals :
        Started(Constructed(4, l, rmin, rmax, SyncCheckLength, total))

SpecReported == InitReported /\ [][NextFlag]_vars

(***************************************************************************)
(* SpecMachine: the transitions of the calibration state machine with      *)
(* windows of 4 mm and of 12 mm, the second longer than the calibration    *)
(* length, and with the clock, so that an overdue comparison is requested  *)
(* before any word has been received.                                      *)
(***************************************************************************)
MachineFilamentChoices == {4, 12}

MachineWords == {Position(0), Position(256)}

NextMachine ==
    \/ \E d \in TickSteps : Tick(d)
    \/ \E filamentConsumed \in MachineFilamentChoices :
            /\ Followed(filamentConsumed, MachineMaxPending, MachineMaxTotal)
            /\ CheckEnter(TRUE, TRUE, TRUE, filamentConsumed)
    \/ ClearEnter
    \/ \E val \in MachineWords, since \in TrustedSince(mon) :
            /\ Tracked(val, MachineMaxMovement)
            /\ PollWord(val, since)
    \/ CheckReturn(FALSE)
    \/ ClearReturn
    \/ ConfigureCalibration

SpecMachine == InitCalibration /\ [][NextMachine]_vars

(***************************************************************************)
(* SpecSilent: the sensor stops reporting.  Words arrive only while the    *)
(* clock stands at StartTime; the clock then advances past the overdue     *)
(* interval and only Check is called, each call with positive extrusion    *)
(* and with no reception in progress.  The model follows the pending       *)
(* extrusion up to the overdue threshold while the sensor reports and      *)
(* SilentMaxExcess mm past it afterwards, and it follows the calls up to   *)
(* the first Check that returns with the accumulators zeroed.  The wheel   *)
(* does not turn.                                                          *)
(* SpecSilentFair adds what the claim about the overdue flush assumes:     *)
(* Check keeps being called, and every call returns (the poll loop ends    *)
(* when the receive buffer holds no further word).                         *)
(***************************************************************************)
SilentFilamentChoices == {2, 3}

SilentWords == {Position(0), SwitchOpenPosition(0), TypeMagnetV1ErrorMask}

\* no position report arrives any more
Silent == now > StartTime

\* pending extrusion at which the overdue branch of step 4 is taken
OverdueThreshold(m) == 3 * m.minimumExtrusionCheckLength

\* a Check made after the sensor stopped has returned with the
\* accumulators zeroed
Flushed ==
    /\ Silent
    /\ pc = "ready"
    /\ last.op = "Check"
    /\ mon.extrusionCommandedThisSegment = 0
    /\ mon.extrusionCommandedSinceLastSync = 0
    /\ mon.movementMeasuredThisSegment = 0
    /\ mon.movementMeasuredSinceLastSync = 0

SilentCheckEnter(filamentConsumed) ==
    /\ Pending(mon) + filamentConsumed
            <= OverdueThreshold(mon) + (IF Silent THEN SilentMaxExcess ELSE 0)
    /\ ~Silent => Counted(mon) + Pending(mon) + filamentConsumed <= SilentMaxTotal
    /\ ~Flushed
    /\ CheckEnter(TRUE, TRUE, TRUE, filamentConsumed)

SilentCall == \E filamentConsumed \in SilentFilamentChoices : SilentCheckEnter(filamentConsumed)

NextSilent ==
    \/ \E d \in TickSteps : Tick(d)
    \/ SilentCall
    \/ \E val \in SilentWords, since \in TrustedSince(mon) :
            /\ ~Silent
            /\ PollWord(val, since)
    \/ CheckReturn(FALSE)

SpecSilent == InitCalibration /\ [][NextSilent]_vars

SpecSilentFair ==
    /\ SpecSilent
    /\ WF_vars(SilentCall)
    /\ WF_vars(CheckReturn(FALSE))

(***************************************************************************)
(* SpecReconfigured: SpecDecoder for both hardware variants, with          *)
(* magnitude and AGC words, and with reconfiguration.                      *)
(***************************************************************************)
\* monitorType: 3 without switch, 4 with switch
MonitorTypes == {3, 4}

MagnitudeWord(magnitude) == TypeMagnetV2MessageTypeInfo + TypeMagnetV3InfoTypeMagnitude + magnitude
AgcWord(agc) == TypeMagnetV2MessageTypeInfo + TypeMagnetV3InfoTypeAgc + agc

ReconfiguredWords ==
    {Position(256), TypeMagnetV1ErrorMask,
     EvenParity(VersionWord(3)), OddParity(VersionWord(3)),
     EvenParity(PositionV2(256)), EvenParity(ErrorV2(1)),
     EvenParity(MagnitudeWord(7)), EvenParity(AgcWord(5))}

InitReconfigured ==
    \E monitorType \in MonitorTypes, l \in MmPerRevChoices, rmin \in MinMovementChoices,
       rmax \in MaxMovementChoices :
        Started(Constructed(monitorType, l, rmin, rmax, SyncCheckLength, 0))

NextReconfigured ==
    \/ \E filamentConsumed \in DecoderFilamentChoices :
            /\ Followed(filamentConsumed, DecoderMaxPending, DecoderMaxPending)
            /\ CheckEnter(TRUE, TRUE, TRUE, filamentConsumed)
    \/ \E val \in ReconfiguredWords, since \in TrustedSince(mon) :
            /\ Tracked(val, DecoderMaxMovement)
            /\ PollWord(val, since)
    \/ PollFramingError
    \/ CheckReturn(FALSE)
    \/ ConfigureCalibration

SpecReconfigured == InitReconfigured /\ [][NextReconfigured]_vars

(***************************************************************************)
(* SpecFrame: what a Check call leaves alone.  The monitor as the call     *)
(* found it is kept in task.start; calls come from the interrupt, with and *)
(* without a start bit to capture, and the words include position reports  *)
(* with the switch open and the sensor error word.                         *)
(***************************************************************************)
FrameFilamentChoices == {3}

FrameWords ==
    {Position(0), Position(256), SwitchOpenPosition(0), SwitchOpenPosition(256),
     TypeMagnetV1ErrorMask}

\* Check is entered, steps 1 and 2, and the monitor it found is recorded
CheckEnterRecorded(isPrinting, fromIsr, waitingForStartBit, filamentConsumed) ==
    /\ pc = "ready"
    /\ mon' = CheckBegin(mon, isPrinting, fromIsr, waitingForStartBit, now, filamentConsumed)
    /\ pc' = "Check"
    /\ task' = [NoTask(mon) EXCEPT !.filamentConsumed = filamentConsumed]
    /\ UNCHANGED <<now, delivered, last, calibrated, seeded>>

NextFrame ==
    \/ \E waitingForStartBit \in BOOLEAN, filamentConsumed \in FrameFilamentChoices :
            /\ Followed(filamentConsumed, FrameMaxPending, FrameMaxTotal)
            /\ CheckEnterRecorded(TRUE, TRUE, waitingForStartBit, filamentConsumed)
    \/ \E val \in FrameWords, since \in TrustedSince(mon) :
            /\ Tracked(val, FrameMaxMovement)
            /\ PollWord(val, since)
    \/ CheckReturn(FALSE)

SpecFrame == InitCalibration /\ [][NextFrame]_vars

(***************************************************************************)
(* SpecCandidate: the start bit candidate across comparisons.  Calls come  *)
(* from the task and from the interrupt, with and without a start bit to   *)
(* capture, and may return without a word polled; the clock passes the     *)
(* overdue limit; Clear is called.  task.filamentConsumed tallies the      *)
(* filamentConsumed passed to Check since construction, and the model      *)
(* follows the calls up to a tally of CandidateMaxTotal.                   *)
(***************************************************************************)
CandidateFilamentChoices == {0, 3}

CandidateWords == {Position(0), Position(256)}

\* Check is entered, steps 1 and 2, and its filamentConsumed is tallied
CheckEnterTallied(isPrinting, fromIsr, waitingForStartBit, filamentConsumed) ==
    /\ pc = "ready"
    /\ mon' = CheckBegin(mon, isPrinting, fromIsr, waitingForStartBit, now, filamentConsumed)
    /\ pc' = "Check"
    /\ task' = [task EXCEPT !.filamentConsumed = @ + filamentConsumed]
    /\ UNCHANGED <<now, delivered, last, calibrated, seeded>>

NextCandidate ==
    \/ \E d \in TickSteps : Tick(d)
    \/ \E fromIsr \in BOOLEAN, waitingForStartBit \in BOOLEAN,
          filamentConsumed \in CandidateFilamentChoices :
            /\ Followed(filamentConsumed, CandidateMaxPending, CandidateMaxTotal)
            /\ task.filamentConsumed + filamentConsumed <= CandidateMaxTotal
            /\ CheckEnterTallied(TRUE, fromIsr, waitingForStartBit, filamentConsumed)
    \/ ClearEnter
    \/ \E val \in CandidateWords, since \in TrustedSince(mon) :
            /\ Tracked(val, CandidateMaxMovement)
            /\ PollWord(val, since)
    \/ CheckReturn(FALSE)
    \/ ClearReturn

SpecCandidate == InitCalibration /\ [][NextCandidate]_vars

(***************************************************************************)
(* The claims.  A claim about what a call returns is stated on the step in *)
(* which the call returns (CheckReturn, ClearReturn), or on the state      *)
(* right after it: Returned(op).                                           *)
(***************************************************************************)
\* the last call that returned is op, and no call has been entered since
Returned(op) == pc = "ready" /\ last.op = op

\* Check is about to compare, or to return noDataReceived: the this-segment
\* extrusion has reached the check length, or a sync is overdue
ComparisonDue(m, millis, isReceiving) ==
    \/ m.extrusionCommandedThisSegment >= m.minimumExtrusionCheckLength
    \/ /\ m.extrusionCommandedThisSegment + m.extrusionCommandedSinceLastSync
                >= 3 * m.minimumExtrusionCheckLength
       /\ millis - m.lastMeasurementTime > OverdueMillis
       /\ ~isReceiving

\* C1 as stated: with comparison enabled and no valid position word decoded
\* since the last configuration, every Check returns noDataReceived.
C1_EveryCheckReportsNoData ==
    (Returned("Check") /\ mon.comparisonEnabled /\ ~mon.dataReceived)
        => last.ret = "noDataReceived"

\* C1 as amended: with comparison enabled and no valid position word decoded,
\* Check returns sensorError when the decoder holds a sensor error, otherwise
\* noDataReceived when it is due to compare, otherwise ok; never noFilament
\* and never a ratio fault.
C1_NoDataWhenComparisonDue ==
    [][\A isReceiving \in BOOLEAN :
        (CheckReturn(isReceiving) /\ mon.comparisonEnabled /\ ~mon.dataReceived)
            => last'.ret = IF mon.sensorError THEN "sensorError"
                           ELSE IF ComparisonDue(mon, now, isReceiving) THEN "noDataReceived"
                           ELSE "ok"]_vars

\* a Check has returned noDataReceived
C1_Witness ==
    /\ Returned("Check")
    /\ mon.comparisonEnabled
    /\ ~mon.dataReceived
    /\ last.ret = "noDataReceived"

\* C10 as stated: a Check that follows Clear with nothing delivered to it
\* returns noDataReceived whenever comparison is enabled and no valid word
\* was received.
C10_CheckAfterClearReportsNoData ==
    [][\A isReceiving \in BOOLEAN :
        (/\ CheckReturn(isReceiving)
         /\ last.op = "Clear"
         /\ ~delivered
         /\ mon.comparisonEnabled
         /\ ~mon.dataReceived)
            => last'.ret = "noDataReceived"]_vars

\* C10 as amended: with comparison enabled and no valid word received, Clear
\* itself returns noDataReceived; the Check that follows it with nothing
\* delivered returns noDataReceived only when a sync is overdue for the
\* extrusion it was passed, sensorError when the decoder holds a sensor
\* error, and ok otherwise.
C10_ClearReportsNoData ==
    [][/\ (ClearReturn /\ mon.comparisonEnabled /\ ~mon.dataReceived)
            => last'.ret = "noDataReceived"
       /\ \A isReceiving \in BOOLEAN :
            (/\ CheckReturn(isReceiving)
             /\ last.op = "Clear"
             /\ ~delivered
             /\ mon.comparisonEnabled
             /\ ~mon.dataReceived)
                => /\ mon.extrusionCommandedThisSegment = 0
                   /\ last'.ret =
                        IF mon.sensorError THEN "sensorError"
                        ELSE IF /\ mon.extrusionCommandedSinceLastSync
                                        >= 3 * mon.minimumExtrusionCheckLength
                                /\ now - mon.lastMeasurementTime > OverdueMillis
                                /\ ~isReceiving
                        THEN "noDataReceived"
                        ELSE "ok"]_vars

\* Clear has returned noDataReceived although the decoder holds a sensor
\* error, and the Check that follows it, with nothing delivered, is at its
\* step 4 with too little extrusion for a sync to be overdue
C10_Witness ==
    /\ pc = "Check"
    /\ ~delivered
    /\ last = [op |-> "Clear", ret |-> "noDataReceived"]
    /\ mon.comparisonEnabled
    /\ ~mon.dataReceived
    /\ mon.sensorError
    /\ mon.extrusionCommandedSinceLastSync > 0

\* the overdue test of claim C8
OverdueTest(m, millis, isReceiving) ==
    /\ m.extrusionCommandedThisSegment + m.extrusionCommandedSinceLastSync
            >= 3 * m.minimumExtrusionCheckLength
    /\ millis - m.lastMeasurementTime > OverdueMillis
    /\ ~isReceiving

Zeroed(m) ==
    /\ m.extrusionCommandedThisSegment = 0
    /\ m.extrusionCommandedSinceLastSync = 0
    /\ m.movementMeasuredThisSegment = 0
    /\ m.movementMeasuredSinceLastSync = 0

SignedDelta(new, prev) ==
    LET d == ((new % CountsPerRev) - (prev % CountsPerRev)) % CountsPerRev
    IN  IF d <= CountsPerRev \div 2 THEN d ELSE d - CountsPerRev

\* C7: with checkNonPrintingMoves false, a position report that meets start
\* bit data adds the since-last-sync window to the this-segment accumulators
\* exactly when a fence is established (synced), the move at the start bit
\* was a printing move and at least SyncDelayMillis separate the extruder's
\* printing-since time from the fence; otherwise the window is discarded.
\* The new fence is established only if the move at the start bit was a
\* printing move, so the window after a non-printing fence is discarded too.
\* Nothing else changes the this-segment accumulators during the decode.
C7_TransferOnlyWhenTrusted ==
    [][/\ \A val \in SyncWords, since \in PrintingSinceChoices(mon) :
            (PollWord(val, since) /\ ~mon.checkNonPrintingMoves)
                => LET fence    == Decode(mon, Complete(val)).report /\ mon.haveStartBitData
                       trusted  == /\ mon.synced
                                   /\ mon.wasPrintingAtStartBit
                                   /\ mon.lastSyncTime - since >= SyncDelayMillis
                       transfer == fence /\ trusted
                       cand     == mon.extrusionCommandedAtCandidateStartBit
                       window   == mon.movementMeasuredSinceLastSync
                                        + SignedDelta(val, mon.sensorValue)
                   IN  /\ mon'.extrusionCommandedThisSegment =
                                mon.extrusionCommandedThisSegment + (IF transfer THEN cand ELSE 0)
                       /\ mon'.movementMeasuredThisSegment =
                                mon.movementMeasuredThisSegment + (IF transfer THEN window ELSE 0)
                       /\ fence => /\ mon'.synced = mon.wasPrintingAtStartBit
                                   /\ mon'.movementMeasuredSinceLastSync = 0
                                   /\ mon'.extrusionCommandedSinceLastSync =
                                            mon.extrusionCommandedSinceLastSync - cand
                                   /\ mon'.lastSyncTime = mon.candidateStartBitTime
                       /\ ~fence => /\ mon'.synced = mon.synced
                                    /\ mon'.extrusionCommandedSinceLastSync =
                                            mon.extrusionCommandedSinceLastSync
                       /\ ~mon'.haveStartBitData
       /\ PollFramingError
            => /\ mon'.extrusionCommandedThisSegment = mon.extrusionCommandedThisSegment
               /\ mon'.movementMeasuredThisSegment = mon.movementMeasuredThisSegment
               /\ mon'.synced = mon.synced
               /\ ~mon'.haveStartBitData]_vars

\* a first window of 1 mm and a quarter turn has been transferred, and the
\* second window of 1 mm, fenced by a non-printing move, has been discarded
\* and has cleared synced
C7_Witness ==
    /\ pc = "Check"
    /\ ~mon.checkNonPrintingMoves
    /\ mon.extrusionCommandedThisSegment = 1
    /\ mon.movementMeasuredThisSegment = 256
    /\ mon.extrusionCommandedSinceLastSync = 0
    /\ mon.extrusionCommandedAtCandidateStartBit = 1
    /\ ~mon.wasPrintingAtStartBit
    /\ ~mon.synced
    /\ ~mon.haveStartBitData

\* C9: the movement a position report adds is SignedDelta of the new word
\* and the stored word, whatever the non-angle bits of either, and lies
\* within -511 .. 512 counts.
C9_WraparoundMapping ==
    [][\A val \in AngleWords :
        PollWord(val, 0)
            => LET moved == mon'.movementMeasuredSinceLastSync
                                - mon.movementMeasuredSinceLastSync
               IN  /\ moved = SignedDelta(val, mon.sensorValue)
                   /\ moved \in (1 - CountsPerRev \div 2) .. (CountsPerRev \div 2)
                   /\ mon'.sensorValue = val]_vars

\* position reports have been decoded, the last with its switch bit set, and
\* the movement counted stands at -511: a delta of 513 counts as -511
C9_Witness ==
    /\ pc = "Clear"
    /\ delivered
    /\ mon.sensorValue = SwitchOpenPosition(512)
    /\ mon.movementMeasuredSinceLastSync = -511

RatioFaults == {"tooLittleMovement", "tooMuchMovement"}

\* C2: with comparison enabled and a valid word received, a Check that finds
\* a sensor error at the end of the decode step returns sensorError, whether
\* or not the stored word has its switch bit set and whatever the
\* this-segment window holds; with no sensor error and the switch bit set it
\* returns noFilament.  Neither performs a comparison.
C2_SensorErrorThenSwitch ==
    [][\A isReceiving \in BOOLEAN :
        (CheckReturn(isReceiving) /\ mon.comparisonEnabled /\ mon.dataReceived)
            => /\ mon.sensorError
                    => last'.ret = "sensorError" /\ mon' = mon
               /\ (~mon.sensorError /\ SwitchOpen(mon))
                    => last'.ret = "noFilament" /\ mon' = mon]_vars

\* Check is at its step 4 in state comparing with a sensor error, the switch
\* bit set, and a this-segment window of the check length with no movement,
\* which the comparison would report as tooLittleMovement
C2_Witness ==
    /\ pc = "Check"
    /\ mon.comparisonEnabled
    /\ mon.dataReceived
    /\ mon.sensorError
    /\ SwitchOpen(mon)
    /\ mon.magneticMonitorState = "comparing"
    /\ mon.extrusionCommandedThisSegment >= mon.minimumExtrusionCheckLength
    /\ mon.movementMeasuredThisSegment = 0
    /\ RatioStatus(mon, Ratio(0, mon.extrusionCommandedThisSegment)) = "tooLittleMovement"

\* C3: with comparison enabled, a Check returns a ratio fault only from a
\* comparison that ends in state comparing with the lifetime extrusion at
\* CalibrationLength or more, counted from leaving idle: a Check entered in
\* state idle, or one that leaves state calibrating with the total below
\* CalibrationLength, does not return a ratio fault.
C3_NoFaultBeforeCalibrated ==
    [][\A isReceiving \in BOOLEAN :
        (CheckReturn(isReceiving) /\ mon.comparisonEnabled)
            => /\ last'.ret \in RatioFaults
                    => /\ mon.magneticMonitorState # "idle"
                       /\ mon'.magneticMonitorState = "comparing"
                       /\ mon'.totalExtrusionCommanded >= CalibrationLength
               /\ (\/ mon.magneticMonitorState = "idle"
                   \/ /\ mon'.magneticMonitorState = "calibrating"
                      /\ mon'.totalExtrusionCommanded < CalibrationLength)
                    => last'.ret \notin RatioFaults]_vars

\* a Check has compared a second window in state calibrating: 8 mm commanded
\* in total and no movement at all, and it returned ok
C3_Witness ==
    /\ Returned("Check")
    /\ last.ret = "ok"
    /\ mon.comparisonEnabled
    /\ mon.dataReceived
    /\ mon.magneticMonitorState = "calibrating"
    /\ mon.totalExtrusionCommanded = 8
    /\ mon.totalMovementMeasured = 0
    /\ mon.extrusionCommandedThisSegment = 0

\* C4 as stated: once a calibrating -> comparing transition has happened,
\* backwards does not change until reconfiguration, for any sequence of
\* Check and Clear.
C4_BackwardsFixedForLife ==
    [][(calibrated /\ calibrated') => mon'.backwards = mon.backwards]_vars

\* C4 as amended: backwards changes only in a Check that takes the state
\* machine from calibrating to comparing, or in a reconfiguration; in state
\* comparing no window changes it, whatever its raw movement.  Clear returns
\* the state machine to idle, and the calibration that follows assigns
\* backwards again.
C4_BackwardsAssignedAtCalibration ==
    [][mon'.backwards # mon.backwards
        => \/ /\ pc = "Check"
              /\ pc' = "ready"
              /\ mon.magneticMonitorState = "calibrating"
              /\ mon'.magneticMonitorState = "comparing"
           \/ ConfigureCalibration]_vars

\* in state comparing, calibrated forwards, a window of negative raw movement
\* has been compared, and backwards is still false
C4_Witness ==
    /\ Returned("Check")
    /\ calibrated
    /\ mon.magneticMonitorState = "comparing"
    /\ ~mon.backwards
    /\ mon.minMovementRatio.n < 0

\* Check is at its step 4 and will compare the this-segment window
RegularComparison(m) ==
    /\ m.comparisonEnabled
    /\ m.dataReceived
    /\ ~m.sensorError
    /\ ~SwitchOpen(m)
    /\ m.extrusionCommandedThisSegment >= m.minimumExtrusionCheckLength

\* the movement of the this-segment window as state comparing counts it
WindowMovement(m) ==
    IF m.backwards THEN -m.movementMeasuredThisSegment ELSE m.movementMeasuredThisSegment

\* the this-segment window corresponds to a sensitivity of s mm/rev
WindowSensitivity(m, s) ==
    /\ WindowMovement(m) > 0
    /\ m.extrusionCommandedThisSegment * CountsPerRev = s * WindowMovement(m)

\* the claims C5 and C6 speak of this configuration
NominalConfiguration(m) ==
    m.mmPerRev = 22 /\ m.minMovementAllowed = 60 /\ m.maxMovementAllowed = 150

\* C5 as stated: in state comparing at 22 mm/rev, 60% to 150%, a window at a
\* measured sensitivity of 11 mm/rev yields tooLittleMovement and a window at
\* 22 mm/rev yields ok.
C5_HalfSensitivityTooLittle ==
    [][(/\ CheckReturn(FALSE)
        /\ RegularComparison(mon)
        /\ NominalConfiguration(mon)
        /\ mon.magneticMonitorState = "comparing")
            => /\ WindowSensitivity(mon, 11) => last'.ret = "tooLittleMovement"
               /\ WindowSensitivity(mon, 22) => last'.ret = "ok"]_vars

\* C5 as amended: in state comparing at 22 mm/rev, 60% to 150%, a window with
\* half the movement the configured sensitivity predicts (50%, a measured
\* sensitivity of 44 mm/rev) yields tooLittleMovement, a window at 22 mm/rev
\* (100%) yields ok, and a window at a measured sensitivity of 11 mm/rev has
\* twice the predicted movement (200%) and yields tooMuchMovement.
C5_HalfMovementTooLittle ==
    [][(/\ CheckReturn(FALSE)
        /\ RegularComparison(mon)
        /\ NominalConfiguration(mon)
        /\ mon.magneticMonitorState = "comparing")
            => /\ WindowSensitivity(mon, 44) => last'.ret = "tooLittleMovement"
               /\ WindowSensitivity(mon, 22) => last'.ret = "ok"
               /\ WindowSensitivity(mon, 11) => last'.ret = "tooMuchMovement"]_vars

\* a Check in state comparing has compared a window of 11 mm and a quarter
\* revolution, 44 mm/rev, and has returned tooLittleMovement
C5_Witness ==
    /\ Returned("Check")
    /\ last.ret = "tooLittleMovement"
    /\ NominalConfiguration(mon)
    /\ mon.magneticMonitorState = "comparing"
    /\ mon.totalExtrusionCommanded = 33
    /\ mon.minMovementRatio = Ratio(256, 11)

\* movement counts over mm commanded, scaled by a sensitivity of
\* sensN / sensD mm/rev and tested against the allowed percentages
ScaledStatus(m, movement, commanded, sensN, sensD) ==
    IF movement * sensN * 100 < m.minMovementAllowed * CountsPerRev * commanded * sensD
    THEN "tooLittleMovement"
    ELSE IF movement * sensN * 100 > m.maxMovementAllowed * CountsPerRev * commanded * sensD
    THEN "tooMuchMovement"
    ELSE "ok"

\* C6 as stated: in state comparing, the verdict on a window is its ratio
\* scaled by the measured sensitivity, lifetime extrusion commanded over
\* lifetime movement measured (in revolutions), the totals taken before or
\* after the window is added.
C6_ScaledByMeasuredSensitivity ==
    [][(/\ CheckReturn(FALSE)
        /\ RegularComparison(mon)
        /\ mon.magneticMonitorState = "comparing"
        /\ mon.totalMovementMeasured > 0
        /\ mon'.totalMovementMeasured > 0)
            => \/ last'.ret = ScaledStatus(mon, WindowMovement(mon),
                                    mon.extrusionCommandedThisSegment,
                                    mon.totalExtrusionCommanded * CountsPerRev,
                                    mon.totalMovementMeasured)
               \/ last'.ret = ScaledStatus(mon, WindowMovement(mon),
                                    mon.extrusionCommandedThisSegment,
                                    mon'.totalExtrusionCommanded * CountsPerRev,
                                    mon'.totalMovementMeasured)]_vars

\* C6 as amended: in state comparing the verdict on a window is its ratio
\* scaled by the configured mmPerRev, whatever the measured sensitivity; the
\* window that completes calibration is judged the same way, on the lifetime
\* totals it completes.
C6_ScaledByConfiguredSensitivity ==
    [][(CheckReturn(FALSE) /\ RegularComparison(mon))
            => /\ mon.magneticMonitorState = "comparing"
                    => last'.ret = ScaledStatus(mon, WindowMovement(mon),
                                        mon.extrusionCommandedThisSegment, mon.mmPerRev, 1)
               /\ (mon.magneticMonitorState = "calibrating"
                        /\ mon'.magneticMonitorState = "comparing")
                    => last'.ret = ScaledStatus(mon,
                                        Abs(mon.totalMovementMeasured
                                                + mon.movementMeasuredThisSegment),
                                        mon.totalExtrusionCommanded
                                                + mon.extrusionCommandedThisSegment,
                                        mon.mmPerRev, 1)]_vars

\* calibration measured 44 mm/rev, half the movement the configured 22 mm/rev
\* predicts, and a Check in state comparing has compared a window at that
\* same 44 mm/rev: it has returned tooLittleMovement
C6_Witness ==
    /\ Returned("Check")
    /\ last.ret = "tooLittleMovement"
    /\ mon.comparisonEnabled
    /\ mon.mmPerRev = 22
    /\ mon.magneticMonitorState = "comparing"
    /\ mon.totalExtrusionCommanded = 33
    /\ mon.totalMovementMeasured = 768
    /\ mon.minMovementRatio = Ratio(256, 11)
    /\ mon.maxMovementRatio = Ratio(256, 11)

\* C11 as stated: after Clear returns, all four accumulators are zero, synced
\* is false and no start bit candidate is pending.
C11_ClearZeroesAllAccumulators ==
    Returned("Clear") => Zeroed(mon) /\ ~mon.synced /\ ~mon.haveStartBitData

\* C11 as amended: Clear zeroes the four accumulators on entry, and the words
\* it then drains add the movement of each position report to the movement
\* measured since the last sync, so on return that accumulator holds the
\* movement reported during the call; the other three accumulators are zero,
\* synced is false, no start bit candidate is pending, the state is idle, the
\* lifetime totals are those from before the call, and the status returned is
\* not a ratio fault.
C11_ClearKeepsTotals ==
    [][/\ ClearEnter => Zeroed(mon')
       /\ (ClearEnter \/ pc = "Clear")
            => /\ mon'.extrusionCommandedThisSegment = 0
               /\ mon'.extrusionCommandedSinceLastSync = 0
               /\ mon'.movementMeasuredThisSegment = 0
               /\ ~mon'.synced
               /\ ~mon'.haveStartBitData
               /\ mon'.magneticMonitorState = "idle"
               /\ mon'.totalExtrusionCommanded = mon.totalExtrusionCommanded
               /\ mon'.totalMovementMeasured = mon.totalMovementMeasured
       /\ \A val \in CalWords :
            (pc = "Clear" /\ PollWord(val, 0))
                => mon'.movementMeasuredSinceLastSync =
                        mon.movementMeasuredSinceLastSync
                            + (IF Decode(mon, Complete(val)).report
                               THEN SignedDelta(val, mon.sensorValue) ELSE 0)
       /\ ClearReturn => mon' = mon /\ last'.ret \notin RatioFaults]_vars

\* Clear has returned after a completed calibration: it drained a position
\* report a quarter turn on, and the lifetime totals still stand
C11_Witness ==
    /\ Returned("Clear")
    /\ mon.movementMeasuredSinceLastSync = 256
    /\ mon.totalExtrusionCommanded = 12
    /\ mon.totalMovementMeasured # 0
    /\ calibrated

\* the monitor that differs from m in the comparison-enabled flag only
Twin(m) == [m EXCEPT !.comparisonEnabled = ~m.comparisonEnabled]

\* C12: two monitors that differ only in comparisonEnabled stay equal in
\* everything else through every step of Check and Clear and every polled
\* item: the step taken from the twin of the state, with the same inputs, ends
\* in the twin of the next state.  The monitor with comparison disabled
\* returns ok from every Check and every Clear.
C12_ComparisonFlagOnlyMasksStatus ==
    [][/\ \A filamentConsumed \in FlagFilamentChoices :
            CheckEnter(TRUE, TRUE, TRUE, filamentConsumed)
                => CheckBegin(Twin(mon), TRUE, TRUE, TRUE, now, filamentConsumed) = Twin(mon')
       /\ ClearEnter => Reset(Twin(mon)) = Twin(mon')
       /\ \A val \in FlagWords, since \in TrustedSince(mon) :
            PollWord(val, since)
                => HandlePolled(Twin(mon), Complete(val), now, since) = Twin(mon')
       /\ CheckReturn(FALSE)
            => LET off == IF mon.comparisonEnabled THEN Twin(mon) ELSE mon
               IN  /\ CheckEnd(Twin(mon), now, FALSE).m = Twin(mon')
                   /\ CheckEnd(off, now, FALSE).ret = "ok"
                   /\ ~mon.comparisonEnabled => last'.ret = "ok"
       /\ ClearReturn
            => LET off == IF mon.comparisonEnabled THEN Twin(mon) ELSE mon
               IN  /\ ClearStatus(off) = "ok"
                   /\ ~mon.comparisonEnabled => last'.ret = "ok"]_vars

\* with comparison disabled the monitor has calibrated and has compared a
\* window in state comparing, 16 mm in all without any movement, and Check
\* has returned ok; its twin returns tooLittleMovement there
C12_Witness ==
    /\ Returned("Check")
    /\ ~mon.comparisonEnabled
    /\ last.ret = "ok"
    /\ mon.magneticMonitorState = "comparing"
    /\ mon.totalExtrusionCommanded = 16
    /\ mon.totalMovementMeasured = 0
    /\ RatioStatus(Twin(mon), mon.minMovementRatio) = "tooLittleMovement"

\* val is a version word of even parity: P110 0000 vvvvvvvv
IsVersionWord(val) == FoldParity(val) % 2 = 0 /\ (val \div 256) % 128 = 96

\* C13 as stated: the version never decreases when a word is decoded.
C13_VersionNeverDecreases ==
    [][mon'.version >= mon.version]_vars

\* C13 as amended: the version starts at 1 and only a version word of even
\* parity changes it.  Under version 1 the word is taken if its value is 2 or
\* more, so the version leaves 1 upwards; under a later version every such
\* word sets the version to its value, higher or lower.
C13_VersionFollowsVersionWord ==
    [][/\ \A val \in DecoderWords, since \in TrustedSince(mon) :
            PollWord(val, since)
                => mon'.version =
                        IF IsVersionWord(val) /\ (mon.version # 1 \/ val % 256 >= 2)
                        THEN val % 256
                        ELSE mon.version
       /\ (\A val \in DecoderWords, since \in TrustedSince(mon) : ~PollWord(val, since))
            => mon'.version = mon.version
       /\ mon.version = 1 => mon'.version >= 1]_vars

\* version 3 has been negotiated, and the receiver delivers to a monitor
\* that holds a version 2 error code
C13_Witness ==
    /\ pc \in {"Check", "Clear"}
    /\ delivered
    /\ mon.version = 3
    /\ mon.lastErrorCode = 1
    /\ mon.sensorError

\* the position report val completes a sync that transfers the window
Transfers(m, val, since) ==
    /\ Decode(m, Complete(val)).report
    /\ m.haveStartBitData
    /\ m.synced
    /\ CanUseMeasurement(m, since)

\* C14 as stated: right after a sync that transfers the window, both
\* since-last-sync accumulators are zero.
C14_SinceLastSyncZeroAfterTransfer ==
    [][\A val \in SyncWords, since \in PrintingSinceChoices(mon) :
        (PollWord(val, since) /\ Transfers(mon, val, since))
            => /\ mon'.extrusionCommandedSinceLastSync = 0
               /\ mon'.movementMeasuredSinceLastSync = 0]_vars

\* C14 as amended: right after a sync that transfers the window, the movement
\* measured since the last sync is zero and the extrusion commanded since the
\* last sync is its value before the sync less the candidate captured at the
\* start bit, which is moved to this segment: what Check calls added after
\* the capture stays, so it is zero only if none added any.
C14_ResidueAfterTransfer ==
    [][\A val \in SyncWords, since \in PrintingSinceChoices(mon) :
        (PollWord(val, since) /\ Transfers(mon, val, since))
            => /\ mon'.movementMeasuredSinceLastSync = 0
               /\ mon'.extrusionCommandedSinceLastSync =
                        mon.extrusionCommandedSinceLastSync
                            - mon.extrusionCommandedAtCandidateStartBit
               /\ mon'.extrusionCommandedThisSegment =
                        mon.extrusionCommandedThisSegment
                            + mon.extrusionCommandedAtCandidateStartBit]_vars

\* a candidate of 1 mm was captured, a later Check added 1 mm, and the
\* position report has completed the sync: 1 mm transferred, 1 mm left
C14_Witness ==
    /\ pc = "Check"
    /\ delivered
    /\ mon.synced
    /\ ~mon.haveStartBitData
    /\ mon.extrusionCommandedAtCandidateStartBit = 1
    /\ mon.extrusionCommandedThisSegment = 1
    /\ mon.extrusionCommandedSinceLastSync = 1
    /\ mon.movementMeasuredSinceLastSync = 0
    /\ mon.lastSyncTime = mon.candidateStartBitTime

\* the word is rejected and counted as a parity error: nothing changes but
\* the counter, and the start bit data of this poll is dropped
RejectedForParity(m, n) ==
    n = [m EXCEPT !.parityErrorCount = m.parityErrorCount + 1, !.haveStartBitData = FALSE]

\* C15 as stated: under every version, a complete word of odd parity other
\* than the version 1 error word under version 1 is rejected and counted.
C15_OddParityRejectedEveryVersion ==
    [][\A val \in DecoderWords, since \in TrustedSince(mon) :
        (/\ PollWord(val, since)
         /\ FoldParity(val) % 2 # 0
         /\ ~(mon.version = 1 /\ val = TypeMagnetV1ErrorMask))
            => RejectedForParity(mon, mon')]_vars

\* C15 as amended: under every version other than 1, a complete word of odd
\* parity is rejected and counted.  Under version 1 no word is counted as a
\* parity error: parity is tested for the version word only, so a word of odd
\* parity is never taken as a version word, the error word sets the sensor
\* error, and a word of the version 1 data layout is a position report
\* whatever its parity.
C15_OddParityRejectedAfterVersion1 ==
    [][\A val \in DecoderWords, since \in TrustedSince(mon) :
        (PollWord(val, since) /\ FoldParity(val) % 2 # 0)
            => /\ mon.version # 1 => RejectedForParity(mon, mon')
               /\ mon.version = 1
                    => /\ mon'.parityErrorCount = mon.parityErrorCount
                       /\ mon'.version = 1
                       /\ val = TypeMagnetV1ErrorMask
                            => mon'.sensorError /\ mon'.sensorValue = mon.sensorValue
                       /\ (val < 32768 /\ (val \div 1024) % 16 = 0)
                            => /\ mon'.dataReceived
                               /\ ~mon'.sensorError
                               /\ mon'.sensorValue = val
                       /\ (val > 32768 \/ (val < 32768 /\ (val \div 1024) % 16 # 0))
                            => mon' = [mon EXCEPT !.haveStartBitData = FALSE]]_vars

\* under version 2 a position report has been decoded and a word of odd
\* parity has been counted
C15_Witness ==
    /\ pc \in {"Check", "Clear"}
    /\ delivered
    /\ mon.version = 2
    /\ mon.parityErrorCount = 1
    /\ mon.dataReceived
    /\ mon.sensorValue = EvenParity(PositionV2(256))

\* C16: a framing error polled from the receiver adds one to the framing
\* error counter and drops the pending start bit candidate; nothing else
\* changes, and the call goes on polling.
C16_FramingErrorDropsCandidate ==
    [][PollFramingError
        => /\ mon' = [mon EXCEPT !.framingErrorCount = mon.framingErrorCount + 1,
                                 !.haveStartBitData = FALSE]
           /\ pc' = pc
           /\ last' = last]_vars

\* the first Check captured a candidate of 1 mm, and the only item polled
\* since has been a framing error, which has dropped the candidate
C16_Witness ==
    /\ pc = "Check"
    /\ last.op = "none"
    /\ delivered
    /\ mon.framingErrorCount = 1
    /\ ~mon.haveStartBitData
    /\ ~mon.dataReceived
    /\ ~mon.sensorError
    /\ mon.extrusionCommandedAtCandidateStartBit = 1
    /\ mon.extrusionCommandedSinceLastSync = 1

\* the two serial orders of the task-origin Check and the interrupt-origin
\* Check that cut into it, from the monitor as the task-origin Check found it
TaskCall(m) == CheckCall(m, TRUE, FALSE, FALSE, now, task.filamentConsumed)

IsrCall(m) ==
    CheckCall(m, task.isr.isPrinting, TRUE, task.isr.waitingForStartBit, now,
              task.isr.filamentConsumed)

SerialTaskFirst == IsrCall(TaskCall(task.start))

SerialIsrFirst == TaskCall(IsrCall(task.start))

\* C17: nothing in Check keeps an interrupt-origin call from running between
\* the steps of a task-origin call.  One that runs between the load and the
\* store of step 1 and commands extrusion ends in neither serial order: the
\* store overwrites the accumulator, and the extrusion the interrupt-origin
\* call commanded is missing from it, while the candidate it captured still
\* counts it.  One that runs after the store ends as the serial order with
\* the task-origin call first.
C17_OverlapLosesExtrusion ==
    [][(CheckReturn(FALSE) /\ task.step = "stored" /\ task.isr.ran)
        => /\ (task.isr.at = "loaded" /\ task.isr.filamentConsumed # 0)
                => /\ mon' # SerialTaskFirst
                   /\ mon' # SerialIsrFirst
                   /\ mon'.extrusionCommandedSinceLastSync =
                            SerialTaskFirst.extrusionCommandedSinceLastSync
                                - task.isr.filamentConsumed
                   /\ SerialIsrFirst.extrusionCommandedSinceLastSync =
                            SerialTaskFirst.extrusionCommandedSinceLastSync
           /\ task.isr.at = "stored" => mon' = SerialTaskFirst]_vars

\* a task-origin Check of 1 mm has returned; an interrupt-origin Check of
\* 1 mm ran between its load and its store and captured a start bit
\* candidate: the accumulator holds 1 mm less than the candidate
C17_Witness ==
    /\ Returned("Check")
    /\ task.step = "stored"
    /\ task.isr.ran
    /\ task.isr.at = "loaded"
    /\ task.isr.waitingForStartBit
    /\ task.isr.filamentConsumed = 1
    /\ mon.haveStartBitData
    /\ mon.extrusionCommandedSinceLastSync = task.start.extrusionCommandedSinceLastSync + 1
    /\ mon.extrusionCommandedAtCandidateStartBit = mon.extrusionCommandedSinceLastSync
    /\ mon # SerialTaskFirst
    /\ mon # SerialIsrFirst


\* Check is at its step 4 and CheckFilament will run the state machine
StateMachineRuns(m) ==
    /\ ~m.sensorError
    /\ ~SwitchOpen(m)
    /\ m.dataReceived
    /\ ComparisonDue(m, now, FALSE)

\* the commanded amount step 4 hands to CheckFilament
AmountCommanded(m) ==
    IF m.extrusionCommandedThisSegment >= m.minimumExtrusionCheckLength
    THEN m.extrusionCommandedThisSegment
    ELSE m.extrusionCommandedThisSegment + m.extrusionCommandedSinceLastSync

\* C18 as stated: a comparison that is not the first since a reconfiguration
\* (the state is not idle, or a calibration has completed since the
\* reconfiguration and Clear has returned the state to idle) adds its
\* commanded amount to totalExtrusionCommanded.
C18_EveryComparisonAddsToTotal ==
    [][(/\ CheckReturn(FALSE)
        /\ StateMachineRuns(mon)
        /\ (mon.magneticMonitorState # "idle" \/ calibrated))
            => mon'.totalExtrusionCommanded
                    = mon.totalExtrusionCommanded + AmountCommanded(mon)]_vars

\* C18 as amended: totalExtrusionCommanded changes only in a comparison.  A
\* comparison made in state idle, the first after a reconfiguration or a
\* Clear, overwrites it with the commanded amount of that comparison; a
\* comparison in any other state adds its commanded amount.  Clear and
\* reconfiguration leave the stored value as it is.
C18_IdleComparisonRestartsTotal ==
    [][IF CheckReturn(FALSE) /\ StateMachineRuns(mon)
       THEN mon'.totalExtrusionCommanded
                = IF mon.magneticMonitorState = "idle"
                  THEN AmountCommanded(mon)
                  ELSE mon.totalExtrusionCommanded + AmountCommanded(mon)
       ELSE mon'.totalExtrusionCommanded = mon.totalExtrusionCommanded]_vars

\* a calibration completed, Clear returned the state to idle, and the next
\* comparison, of 4 mm, has left a lifetime total of 4 mm
C18_Witness ==
    /\ Returned("Check")
    /\ calibrated
    /\ mon.magneticMonitorState = "calibrating"
    /\ mon.totalExtrusionCommanded = 4


\* C19 as stated: whenever HaveCalibrationData() is true, a calibration has
\* completed (calibrating -> comparing, the running minimum and maximum
\* seeded) since the last reconfiguration or Clear.
C19_ReportedOnlyAfterCalibration ==
    (pc = "ready" /\ HaveCalibrationData(mon)) => seeded

\* C19 as amended: whenever HaveCalibrationData() is true, the state is
\* comparing or idle.  In state comparing a calibration has completed since
\* the last reconfiguration or Clear, and the running minimum is not above
\* the running maximum.  In state idle none has: the lifetime total above
\* 10 mm is the one left by the comparisons before that reconfiguration or
\* Clear, or the unassigned value of a monitor just constructed.
C19_ReportedInIdleWithoutCalibration ==
    (pc = "ready" /\ HaveCalibrationData(mon))
        => \/ /\ mon.magneticMonitorState = "comparing"
              /\ seeded
              /\ ~RatioLess(mon.maxMovementRatio, mon.minMovementRatio)
           \/ /\ mon.magneticMonitorState = "idle"
              /\ ~seeded

\* a calibration completed with 12 mm, then Clear has returned: the state is
\* idle, no calibration has completed since, and HaveCalibrationData() is true
C19_Witness ==
    /\ Returned("Clear")
    /\ calibrated
    /\ ~seeded
    /\ mon.magneticMonitorState = "idle"
    /\ mon.totalExtrusionCommanded = 12
    /\ HaveCalibrationData(mon)


\* Check is at its step 4 and will call CheckFilament: a comparison request
ComparisonRequested(m) ==
    /\ ~m.sensorError
    /\ ~SwitchOpen(m)
    /\ ComparisonDue(m, now, FALSE)

\* C20 as stated: every comparison request made in idle moves the state to
\* calibrating; the state is never calibrating while the lifetime total is
\* >= 10.0; the state never moves idle -> comparing or comparing ->
\* calibrating; it returns to idle only through Reset.
C20_CalibratingOnlyBelowLength ==
    [][/\ (CheckReturn(FALSE) /\ ComparisonRequested(mon)
                /\ mon.magneticMonitorState = "idle")
            => mon'.magneticMonitorState = "calibrating"
       /\ mon'.magneticMonitorState = "calibrating"
            => mon'.totalExtrusionCommanded < CalibrationLength
       /\ ~(mon.magneticMonitorState = "idle" /\ mon'.magneticMonitorState = "comparing")
       /\ ~(mon.magneticMonitorState = "comparing"
                /\ mon'.magneticMonitorState = "calibrating")
       /\ (mon.magneticMonitorState # "idle" /\ mon'.magneticMonitorState = "idle")
            => (ClearEnter \/ ConfigureCalibration)]_vars

\* C20 as amended: the state changes only in a comparison that finds data
\* received, and in Reset.  Such a comparison made in idle moves the state
\* to calibrating, whatever its commanded amount; one made in calibrating
\* moves it to comparing exactly when the lifetime total with its amount
\* added is >= 10.0; one made in comparing leaves it.  A comparison request
\* before any data is received leaves the state as it is.  The state is
\* calibrating with a lifetime total >= 10.0 only after a comparison in idle
\* whose own commanded amount was >= 10.0, until the next comparison.  The
\* state returns to idle only through Reset.
C20_TransitionsOfStateMachine ==
    [][/\ IF CheckReturn(FALSE) /\ StateMachineRuns(mon)
          THEN mon'.magneticMonitorState =
                    IF mon.magneticMonitorState = "idle"
                    THEN "calibrating"
                    ELSE IF mon.magneticMonitorState = "calibrating"
                            /\ mon.totalExtrusionCommanded + AmountCommanded(mon)
                                    < CalibrationLength
                    THEN "calibrating"
                    ELSE "comparing"
          ELSE IF ClearEnter \/ ConfigureCalibration
          THEN mon'.magneticMonitorState = "idle"
          ELSE mon'.magneticMonitorState = mon.magneticMonitorState
       /\ (mon'.magneticMonitorState = "calibrating"
                /\ mon'.totalExtrusionCommanded >= CalibrationLength)
            => \/ /\ mon.magneticMonitorState = "idle"
                  /\ AmountCommanded(mon) >= CalibrationLength
               \/ /\ mon.magneticMonitorState = "calibrating"
                  /\ mon.totalExtrusionCommanded = mon'.totalExtrusionCommanded
                  /\ ~(CheckReturn(FALSE) /\ StateMachineRuns(mon))]_vars

\* a Check has compared a window of 12 mm in state idle: the state is
\* calibrating with a lifetime total of 12 mm
C20_Witness ==
    /\ Returned("Check")
    /\ mon.dataReceived
    /\ mon.magneticMonitorState = "calibrating"
    /\ mon.totalExtrusionCommanded = 12


\* step 4 of Check finds neither a sensor error nor an open switch
Healthy(m) == ~m.sensorError /\ ~SwitchOpen(m)

SensorDefaults(m) ==
    /\ m.version = 1
    /\ ~m.sensorError
    /\ m.lastErrorCode = 0
    /\ m.magnitude = 0
    /\ m.agc = 0
    /\ ~m.dataReceived
    /\ m.sensorValue = 0
    /\ m.parityErrorCount = 0
    /\ m.framingErrorCount = 0
    /\ m.overrunErrorCount = 0
    /\ m.polarityErrorCount = 0
    /\ m.overdueCount = 0

\* the switch-open mask the constructor gave the monitor: the mask of a
\* monitor without switch is 0 and stays 0, that of a monitor with switch is
\* never 0
ConstructedMask(m) == IF m.switchOpenMask # 0 THEN TypeMagnetV1SwitchOpenMask ELSE 0

\* C22 as stated: after a reconfiguration the sensor state is at its
\* defaults and the switch-open mask is the one the constructor assigned.
C22_ReconfigurationRestoresMask ==
    Returned("Configure") => (SensorDefaults(mon) /\ mon.switchOpenMask = ConstructedMask(mon))

\* C22 as amended: a reconfiguration puts version, sensor error, last error
\* code, magnitude, AGC, dataReceived and the error counters back to their
\* defaults and leaves the switch-open mask as it is: on a monitor with
\* switch that has decoded a version word the mask stays that of the
\* version 2 layout while the version is back to 1.
C22_ReconfigurationKeepsMask ==
    [][ConfigureCalibration
        => /\ SensorDefaults(mon')
           /\ mon'.switchOpenMask = mon.switchOpenMask
           /\ mon'.switchOpenMask
                \in {0, TypeMagnetV1SwitchOpenMask, TypeMagnetV2SwitchOpenMask}
           /\ (mon.version # 1 /\ mon.switchOpenMask # 0)
                => mon'.switchOpenMask = TypeMagnetV2SwitchOpenMask]_vars

\* a monitor with switch decoded a version word and was then reconfigured:
\* the version is 1 and the mask is that of the version 2 layout
C22_Witness ==
    /\ Returned("Configure")
    /\ SensorDefaults(mon)
    /\ mon.switchOpenMask = TypeMagnetV2SwitchOpenMask


\* what the calibration state machine owns
CalibrationRecord(m) ==
    <<m.magneticMonitorState, m.totalExtrusionCommanded, m.totalMovementMeasured,
      m.backwards, m.minMovementRatio, m.maxMovementRatio>>

\* C23 as stated, on the whole call: a Check call that ends its decode step
\* with a sensor error active or the switch open has left the calibration
\* state, the lifetime totals, the backwards flag and the running minimum
\* and maximum as it found them, and has zeroed none of the four
\* accumulators.
C23_FaultedCallZeroesNothing ==
    (Returned("Check") /\ ~Healthy(mon))
        => /\ CalibrationRecord(mon) = CalibrationRecord(task.start)
           /\ task.start.extrusionCommandedThisSegment # 0
                => mon.extrusionCommandedThisSegment # 0
           /\ task.start.movementMeasuredThisSegment # 0
                => mon.movementMeasuredThisSegment # 0
           /\ task.start.extrusionCommandedSinceLastSync # 0
                => mon.extrusionCommandedSinceLastSync # 0
           /\ task.start.movementMeasuredSinceLastSync # 0
                => mon.movementMeasuredSinceLastSync # 0

\* C23 as amended: in a Check call that ends its decode step with a sensor
\* error active or the switch open, step 4 makes no comparison and changes
\* nothing, so the call leaves the calibration state, the lifetime totals,
\* the backwards flag and the running minimum and maximum as it found them.
\* The decode step of the same call still runs the sync when a position
\* report arrives with a start bit candidate held: the movement measured
\* since the last sync is zeroed and the candidate is taken off the
\* extrusion commanded since the last sync.  The this-segment window changes
\* in the call only by what such a sync adds to it.
C23_FaultedCallKeepsRecord ==
    /\ []((Returned("Check") /\ ~Healthy(mon))
            => CalibrationRecord(mon) = CalibrationRecord(task.start))
    /\ [][(CheckReturn(FALSE) /\ ~Healthy(mon)) => mon' = mon]_vars
    /\ [][(pc = "Check" /\ pc' = "Check")
            => \/ /\ mon'.extrusionCommandedThisSegment = mon.extrusionCommandedThisSegment
                  /\ mon'.movementMeasuredThisSegment = mon.movementMeasuredThisSegment
               \/ /\ mon.haveStartBitData
                  /\ mon'.extrusionCommandedThisSegment
                        = mon.extrusionCommandedThisSegment
                            + mon.extrusionCommandedAtCandidateStartBit
                  /\ mon'.extrusionCommandedSinceLastSync
                        = mon.extrusionCommandedSinceLastSync
                            - mon.extrusionCommandedAtCandidateStartBit
                  /\ mon'.movementMeasuredThisSegment
                        = mon.movementMeasuredThisSegment
                            + mon.movementMeasuredSinceLastSync
                            + DecodeMovement(mon'.sensorValue, mon.sensorValue)
                  /\ mon'.movementMeasuredSinceLastSync = 0]_vars

\* a Check found a quarter revolution measured since the last sync, captured
\* a start bit candidate and received a position report with the switch
\* open; the sync was not trusted: the call has ended with the switch open,
\* the movement since the last sync zeroed and nothing added to the
\* this-segment window
C23_Witness ==
    /\ Returned("Check")
    /\ SwitchOpen(mon)
    /\ ~mon.sensorError
    /\ task.start.movementMeasuredSinceLastSync = 256
    /\ mon.movementMeasuredSinceLastSync = 0
    /\ mon.movementMeasuredThisSegment = task.start.movementMeasuredThisSegment
    /\ CalibrationRecord(mon) = CalibrationRecord(task.start)


\* C24: commanded extrusion is never compared twice.  The commanded amounts
\* passed to the comparisons, which the state machine adds up in
\* totalExtrusionCommanded from its first comparison on, never exceed the
\* filamentConsumed passed to Check, and the extrusion commanded since the
\* last sync is never negative: a start bit candidate captured before an
\* overdue flush is not applied again by a later position report.
C24_NeverComparedTwice ==
    /\ Counted(mon) <= task.filamentConsumed
    /\ mon.extrusionCommandedSinceLastSync >= 0

====
